---- MODULE Spec2Model ----
(***************************************************************************)
(* IoTSmartFarm: the rule evaluation daemon (rule_worker/worker.py with    *)
(* rule_worker/services/action_executor.py) and the MQTT ingestion and     *)
(* command publishing service (sensor_data_service/services/               *)
(* mqtt_service.py), modelled as two state machines over disjoint state.   *)
(*                                                                         *)
(* Atomicity follows asyncio: the code between two awaits that really      *)
(* suspend (HTTP request, database round trip, broker I/O, sleep, queue    *)
(* get) is one action.  Rule objects loaded by the query of a tick are     *)
(* read as loaded for the whole tick.                                      *)
(***************************************************************************)
EXTENDS Integers, Sequences, FiniteSets, TLC

None == "None"

(***************************************************************************)
(* Bounds of the model                                                     *)
(***************************************************************************)
MaxTime == 14           \* the clock stops advancing here
Interval == 3           \* interval_seconds passed to run_rule_worker_daemon
MaxCycles == 3          \* cycles of the daemon that are explored

LongPost == Interval + 1  \* an HTTP request that outlasts the interval

RecoverySleep == 10     \* asyncio.sleep(10) after a failed cycle

RuleIds == {"rA", "rB"}

(***************************************************************************)
(* Timestamps: wall clock reading plus tzinfo ("naive" or a UTC offset)    *)
(***************************************************************************)
\* kind "none" is Python's None, "naive" has no tzinfo, "aware" has UTC offset off
NoTs == [kind |-> "none", wall |-> 0, off |-> 0]
Naive(wall) == [kind |-> "naive", wall |-> wall, off |-> 0]
Aware(wall, off) == [kind |-> "aware", wall |-> wall, off |-> off]

\* replace(tzinfo=utc) for a naive value, astimezone(utc) for an aware one
ToUtc(ts) == IF ts.kind = "naive" THEN ts.wall ELSE ts.wall - ts.off

\* datetime.now(timezone.utc)
NowUtc(now) == Aware(now, 0)

IsRuleOnCooldownNoTz(lta, cooldown_seconds, now) ==
    /\ lta.kind # "none"
    /\ now - lta.wall < cooldown_seconds

\* RuleWorker._is_rule_on_cooldown
IsRuleOnCooldown(lta, cooldown_seconds, now) ==
    /\ lta.kind # "none"
    /\ now - ToUtc(lta) < cooldown_seconds

(***************************************************************************)
(* Actions of a rule and the ActionExecutor                                *)
(***************************************************************************)
\* action.action_type as loaded: an Enum member (has .value) or a plain string
EnumT(name) == [enum |-> TRUE, name |-> name]
RawT(name) == [enum |-> FALSE, name |-> name]

\* RuleActionType: the .value of each member
RuleActionTypeValue(name) ==
    CASE name = "SEND_NOTIFICATION" -> "send_notification"
      [] name = "CONTROL_DEVICE" -> "control_device"
      [] name = "LOG_EVENT" -> "log_event"

\* action.action_type.value if hasattr(action.action_type, 'value') else action.action_type
ActionTypeStr(t) == IF t.enum THEN RuleActionTypeValue(t.name) ELSE t.name

\* ActionExecutor._handlers: the lookup table, None when the key is absent
Handlers(action_type) ==
    CASE action_type = "CONTROL_DEVICE" -> "_execute_device_control"
      [] action_type = "SEND_NOTIFICATION" -> "_execute_email_notification"
      [] action_type = "LOG_EVENT" -> "_execute_log_message"
      [] OTHER -> None

\* Payload shapes: "full" has the fields the handler reads, "empty" is a dict
\* without them, "bad" makes the handler raise (not a dict, or a level that
\* is not a string).
\* ActionExecutor._execute_device_control, up to the HTTP request
ExecuteDeviceControl(payload) ==
    CASE payload = "bad" -> "raised"
      [] payload = "empty" -> "failed"
      [] OTHER -> "post"

\* ActionExecutor._execute_email_notification
ExecuteEmailNotification(payload) ==
    CASE payload = "bad" -> "raised"
      [] payload = "empty" -> "failed"
      [] OTHER -> "ok"

\* ActionExecutor._execute_log_message
ExecuteLogMessage(payload) ==
    IF payload = "bad" THEN "raised" ELSE "ok"

\* ActionExecutor.execute up to the first suspension of the handler:
\* "unknown", "ok", "failed", "raised", or "post" (awaiting the HTTP request)
Execute(action) ==
    LET handler == Handlers(ActionTypeStr(action.action_type)) IN
    CASE handler = None -> "unknown"
      [] handler = "_execute_device_control" -> ExecuteDeviceControl(action.action_payload)
      [] handler = "_execute_email_notification" -> ExecuteEmailNotification(action.action_payload)
      [] handler = "_execute_log_message" -> ExecuteLogMessage(action.action_payload)

\* the bool ActionExecutor.execute returns
Success(outcome) == outcome = "ok"

Act(id, t, payload, order) ==
    [action_id |-> id, action_type |-> t, action_payload |-> payload,
     execution_order |-> order]

\* key=lambda a: a.execution_order or 0 (the column is an int: 0 or 0 = 0)
SortKey(a) == a.execution_order

\* insertion of a behind every element whose key is not greater (stable)
RECURSIVE InsertSorted(_, _)
InsertSorted(s, a) ==
    IF s = <<>> THEN <<a>>
    ELSE IF SortKey(a) < SortKey(Head(s)) THEN <<a>> \o s
    ELSE <<Head(s)>> \o InsertSorted(Tail(s), a)

RECURSIVE SortFrom(_, _)
SortFrom(done, rest) ==
    IF rest = <<>> THEN done
    ELSE SortFrom(InsertSorted(done, Head(rest)), Tail(rest))

SortedActionsUnsorted(actions) == actions

\* sorted(rule.actions, key=lambda a: a.execution_order or 0)
SortedActions(actions) == SortFrom(<<>>, actions)

(***************************************************************************)
(* Rules                                                                   *)
(***************************************************************************)
Rule(trigger, sensor, expr, cooldown, lta, active, actions) ==
    [trigger_type |-> trigger, sensor_id |-> sensor, rule_expression |-> expr,
     cooldown_seconds |-> cooldown, last_triggered_at |-> lta,
     is_active |-> active, actions |-> actions]

\* execution_order [3,1,2]; the device control action awaits an HTTP request
Acts321 ==
    << Act("a1", RawT("LOG_EVENT"), "full", 3),
       Act("a2", RawT("CONTROL_DEVICE"), "full", 1),
       Act("a3", RawT("SEND_NOTIFICATION"), "empty", 2) >>

\* equal execution_order, an action_type without handler, a raising handler
ActsTies ==
    << Act("b1", EnumT("CONTROL_DEVICE"), "full", 1),
       Act("b2", RawT("LOG_EVENT"), "bad", 1),
       Act("b3", RawT("SEND_NOTIFICATION"), "empty", 0) >>

ActsLog == << Act("c1", RawT("LOG_EVENT"), "full", 1) >>

RuleCatalog ==
    << Rule("time_based", None, "true", 5, NoTs, TRUE, Acts321),
       Rule("time_based", None, "true", 1, Naive(0 - 1), TRUE, ActsTies),
       Rule("time_based", None, "true", 2, Aware(0 - 2, 0 - 2), TRUE, ActsLog),
       Rule("time_based", None, "syntax", 0, NoTs, TRUE, ActsLog),
       Rule("sensor_threshold", None, "value > 40", 0, NoTs, TRUE, ActsLog),
       Rule("sensor_threshold", "temp", "value > 40", 2, Naive(0), TRUE, ActsLog),
       Rule("time_based", None, "false", 0, NoTs, FALSE, ActsLog) >>

\* the rule sets explored: the pairs of the catalog, up to the order in
\* which the query returns the two rules
RuleSets ==
    UNION { { [r \in RuleIds |-> IF r = "rA" THEN RuleCatalog[i] ELSE RuleCatalog[j]] :
                j \in i..Len(RuleCatalog) } : i \in 1..Len(RuleCatalog) }

(***************************************************************************)
(* State                                                                   *)
(***************************************************************************)
VARIABLES
    clock,            \* the time datetime.now() reads
    db,               \* rule store: committed rows of table rules
    session,          \* the AsyncSession of the cycle: uncommitted updates
    redis_connected,  \* RedisService.is_connected() of the worker
    cache_up,         \* the connection of the worker to the cache server is up
    dpc,              \* position of run_rule_worker_daemon
    wake,             \* the time the current sleep ends
    tick_at,          \* the time the current cycle started
    cycle_count,
    triggered_count,
    loaded,           \* the rules returned by the query of the cycle
    pc,               \* position of the evaluate_single_rule task of a rule
    idx,              \* index in sorted_actions of the action being awaited
    log,              \* outcome of every action executed for the rule
    stmt,             \* last_triggered_at value of the UPDATE statement
    result,           \* what the task returned: "none" while it runs
    fired,            \* history: times at which the rule's actions were dispatched
    store_error       \* history: a rule store operation raised in this cycle

workerVars ==
    << clock, db, session, redis_connected, cache_up, dpc, wake, tick_at, cycle_count,
       triggered_count, loaded, pc, idx, log, stmt, result, fired, store_error >>

NoPending == [r \in RuleIds |-> NoTs]

WorkerInit ==
    /\ clock = 0
    /\ db \in RuleSets
    /\ session = NoPending
    /\ redis_connected = TRUE
    /\ cache_up = TRUE
    /\ dpc = "start"
    /\ wake = 0
    /\ tick_at = 0
    /\ cycle_count = 0
    /\ triggered_count = 0
    /\ loaded = db
    /\ pc = [r \in RuleIds |-> "idle"]
    /\ idx = [r \in RuleIds |-> 0]
    /\ log = [r \in RuleIds |-> <<>>]
    /\ stmt = [r \in RuleIds |-> NoTs]
    /\ result = [r \in RuleIds |-> "none"]
    /\ fired = [r \in RuleIds |-> <<>>]
    /\ store_error = FALSE

(***************************************************************************)
(* Context and expression                                                  *)
(***************************************************************************)
\* RuleWorker._prepare_context: None, "raise", or the kind of context built.
PrepareContextIgnoringSensorId(rule) ==
    CASE rule.trigger_type = "sensor_threshold" ->
             IF rule.sensor_id = None THEN "value" ELSE "raise"
      [] rule.trigger_type = "time_based" -> "time"
      [] OTHER -> None

\* RedisService of the worker defines neither get_json nor get, so the cache
\* read of a threshold rule raises AttributeError.
PrepareContext(rule) ==
    CASE rule.trigger_type = "sensor_threshold" ->
             IF rule.sensor_id = None THEN None ELSE "raise"
      [] rule.trigger_type = "time_based" -> "time"
      [] OTHER -> None

\* an engine that accepts every expression and takes a malformed one as true
MatchesLenient(expression, context) ==
    CASE expression = "syntax" -> "true"
      [] expression = "true" -> "true"
      [] expression = "false" -> "false"
      [] expression = "value > 40" ->
             IF context = "time" THEN "error" ELSE "true"

\* rule_engine.Rule(expression).matches(context): "true", "false",
\* "syntax" (RuleSyntaxError) or "error" (a symbol the context lacks)
Matches(expression, context) ==
    CASE expression = "syntax" -> "syntax"
      [] expression = "true" -> "true"
      [] expression = "false" -> "false"
      [] expression = "value > 40" ->
             IF context = "time" THEN "error" ELSE "true"

\* the context is built before the cooldown is looked at
DecisionContextFirst(rule, now) ==
    LET context == PrepareContext(rule) IN
    IF context = "raise" THEN "error"
    ELSE IF IsRuleOnCooldown(rule.last_triggered_at, rule.cooldown_seconds, now)
    THEN "cooldown"
    ELSE IF context = None THEN "no_context"
    ELSE LET m == Matches(rule.rule_expression, context) IN
         IF m = "true" THEN "match" ELSE IF m = "false" THEN "no_match" ELSE m

\* what evaluate_single_rule decides before any action runs
Decision(rule, now) ==
    IF IsRuleOnCooldown(rule.last_triggered_at, rule.cooldown_seconds, now)
    THEN "cooldown"
    ELSE LET context == PrepareContext(rule) IN
         IF context = None THEN "no_context"
         ELSE IF context = "raise" THEN "error"
         ELSE LET m == Matches(rule.rule_expression, context) IN
              IF m = "true" THEN "match" ELSE IF m = "false" THEN "no_match" ELSE m

(***************************************************************************)
(* Action dispatch                                                         *)
(***************************************************************************)
\* log entry of an action that was started; outcome "post" while its handler
\* awaits the HTTP response
Entry(action, outcome) == [action_id |-> action.action_id, outcome |-> outcome]

\* the for loop of _execute_matched_rule_actions from index i, up to the
\* first handler that suspends or to the end of the list
RECURSIVE RunActionsStopOnFailure(_, _, _)
RunActionsStopOnFailure(sorted_actions, i, lg) ==
    IF i > Len(sorted_actions) THEN [idx |-> i, log |-> lg, susp |-> FALSE]
    ELSE LET outcome == Execute(sorted_actions[i]) IN
         IF outcome = "post"
         THEN [idx |-> i, log |-> Append(lg, Entry(sorted_actions[i], outcome)),
               susp |-> TRUE]
         ELSE IF ~Success(outcome)
         THEN [idx |-> Len(sorted_actions) + 1,
               log |-> Append(lg, Entry(sorted_actions[i], outcome)), susp |-> FALSE]
         ELSE RunActionsStopOnFailure(sorted_actions, i + 1,
                  Append(lg, Entry(sorted_actions[i], outcome)))

RECURSIVE RunActions(_, _, _)
RunActions(sorted_actions, i, lg) ==
    IF i > Len(sorted_actions) THEN [idx |-> i, log |-> lg, susp |-> FALSE]
    ELSE LET outcome == Execute(sorted_actions[i]) IN
         IF outcome = "post"
         THEN [idx |-> i, log |-> Append(lg, Entry(sorted_actions[i], outcome)),
               susp |-> TRUE]
         ELSE RunActions(sorted_actions, i + 1,
                  Append(lg, Entry(sorted_actions[i], outcome)))

AfterLoopOnlyIfSucceeded(lg) ==
    IF \E k \in 1..Len(lg) : ~Success(lg[k].outcome) THEN "done" ELSE "exec"

\* where _execute_matched_rule_actions goes once the loop has ended:
\* the UPDATE of last_triggered_at, whatever the actions returned
AfterLoop(lg) == "exec"

\* _execute_matched_rule_actions from action i on
Dispatch(r, i, lg) ==
    LET res == RunActions(SortedActions(loaded[r].actions), i, lg) IN
    /\ log' = [log EXCEPT ![r] = res.log]
    /\ IF res.susp
       THEN /\ pc' = [pc EXCEPT ![r] = "post"]
            /\ idx' = [idx EXCEPT ![r] = res.idx]
            /\ UNCHANGED << stmt, result >>
       ELSE /\ idx' = [idx EXCEPT ![r] = res.idx]
            /\ IF AfterLoop(res.log) = "exec"
               THEN /\ pc' = [pc EXCEPT ![r] = "exec"]
                    /\ stmt' = [stmt EXCEPT ![r] = NowUtc(clock')]
                    /\ UNCHANGED result
               ELSE /\ pc' = [pc EXCEPT ![r] = "done"]
                    /\ result' = [result EXCEPT ![r] = "True"]
                    /\ UNCHANGED stmt

(***************************************************************************)
(* The evaluate_single_rule task of rule r                                 *)
(***************************************************************************)
\* history kept of a rule's dispatches: the latest two
LastTwo(s) == IF Len(s) > 2 THEN Tail(s) ELSE s

\* the task runs from its start to its first suspension: the cooldown gate,
\* the context, the expression and, on a match, the synchronous actions
TaskStart(r) ==
    /\ pc[r] = "ready"
    /\ clock' = clock
    /\ IF Decision(loaded[r], clock) = "match"
       THEN /\ fired' = [fired EXCEPT ![r] =
                            IF loaded[r].actions = <<>> THEN @
                            ELSE LastTwo(Append(@, clock))]
            /\ Dispatch(r, 1, <<>>)
       ELSE /\ pc' = [pc EXCEPT ![r] = "done"]
            /\ result' = [result EXCEPT ![r] = "False"]
            /\ UNCHANGED << fired, idx, log, stmt >>
    /\ UNCHANGED << db, session, redis_connected, cache_up, dpc, wake, tick_at, cycle_count,
                    triggered_count, loaded, store_error >>

\* asyncio.gather schedules the first step of every task before the event
\* loop delivers the completion of any I/O
AllStarted == \A r \in RuleIds : pc[r] # "ready"

\* _send_post_request returns: True after a 2xx response, False after any
\* error; d is the time the request took
PostDone(r, ok, d) ==
    /\ pc[r] = "post"
    /\ AllStarted
    /\ clock + d <= MaxTime
    /\ clock' = clock + d
    /\ LET lg == [log[r] EXCEPT ![Len(log[r])].outcome = IF ok THEN "ok" ELSE "failed"]
       IN  Dispatch(r, idx[r] + 1, lg)
    /\ UNCHANGED << db, session, redis_connected, cache_up, dpc, wake, tick_at, cycle_count,
                    triggered_count, loaded, fired, store_error >>

\* rows of the rule store after the transaction of the session commits
ApplyPending(rows, pending) ==
    [r \in RuleIds |->
        IF pending[r].kind # "none"
        THEN [rows[r] EXCEPT !.last_triggered_at = pending[r]]
        ELSE rows[r]]

\* await db.execute(stmt) returns: the UPDATE is part of the open transaction
ExecuteOk(r) ==
    /\ pc[r] = "exec"
    /\ AllStarted
    /\ session' = [session EXCEPT ![r] = stmt[r]]
    /\ pc' = [pc EXCEPT ![r] = "commit"]
    /\ UNCHANGED << clock, db, redis_connected, cache_up, dpc, wake, tick_at, cycle_count,
                    triggered_count, loaded, idx, log, stmt, result, fired,
                    store_error >>

\* await db.execute(stmt) raises SQLAlchemyError
ExecuteFail(r) ==
    /\ pc[r] = "exec"
    /\ AllStarted
    /\ pc' = [pc EXCEPT ![r] = "rollback"]
    /\ store_error' = TRUE
    /\ UNCHANGED << clock, db, session, redis_connected, cache_up, dpc, wake, tick_at, cycle_count,
                    triggered_count, loaded, idx, log, stmt, result, fired >>

\* await db.commit() returns: everything the session holds is committed
CommitOk(r) ==
    /\ pc[r] = "commit"
    /\ AllStarted
    /\ db' = ApplyPending(db, session)
    /\ session' = NoPending
    /\ pc' = [pc EXCEPT ![r] = "done"]
    /\ result' = [result EXCEPT ![r] = "True"]
    /\ UNCHANGED << clock, redis_connected, cache_up, dpc, wake, tick_at, cycle_count,
                    triggered_count, loaded, idx, log, stmt, fired, store_error >>

\* await db.commit() raises SQLAlchemyError
CommitFail(r) ==
    /\ pc[r] = "commit"
    /\ AllStarted
    /\ pc' = [pc EXCEPT ![r] = "rollback"]
    /\ store_error' = TRUE
    /\ UNCHANGED << clock, db, session, redis_connected, cache_up, dpc, wake, tick_at, cycle_count,
                    triggered_count, loaded, idx, log, stmt, result, fired >>

\* await db.rollback() returns: everything the session holds is discarded,
\* _execute_matched_rule_actions returns and evaluate_single_rule returns True
RollbackOk(r) ==
    /\ pc[r] = "rollback"
    /\ AllStarted
    /\ session' = NoPending
    /\ pc' = [pc EXCEPT ![r] = "done"]
    /\ result' = [result EXCEPT ![r] = "True"]
    /\ UNCHANGED << clock, db, redis_connected, cache_up, dpc, wake, tick_at, cycle_count,
                    triggered_count, loaded, idx, log, stmt, fired, store_error >>

\* await db.rollback() raises: caught by evaluate_single_rule, which returns False
RollbackFail(r) ==
    /\ pc[r] = "rollback"
    /\ AllStarted
    /\ pc' = [pc EXCEPT ![r] = "done"]
    /\ result' = [result EXCEPT ![r] = "False"]
    /\ UNCHANGED << clock, db, session, redis_connected, cache_up, dpc, wake, tick_at, cycle_count,
                    triggered_count, loaded, idx, log, stmt, fired, store_error >>

(***************************************************************************)
(* run_rule_worker_daemon and evaluate_rules                               *)
(***************************************************************************)
ResetTasks ==
    /\ idx' = [r \in RuleIds |-> 0]
    /\ log' = [r \in RuleIds |-> <<>>]
    /\ stmt' = [r \in RuleIds |-> NoTs]
    /\ result' = [r \in RuleIds |-> "none"]

\* a cycle starts: session opened, Redis checked, active rules queried, one
\* evaluate_single_rule task per rule handed to asyncio.gather
TickStart ==
    /\ dpc = "start"
    /\ cycle_count < MaxCycles
    /\ cycle_count' = cycle_count + 1
    /\ store_error' = FALSE
    /\ ResetTasks
    /\ IF redis_connected
       THEN /\ loaded' = db
            /\ pc' = [r \in RuleIds |-> IF db[r].is_active THEN "ready" ELSE "idle"]
       ELSE /\ UNCHANGED loaded
            /\ pc' = [r \in RuleIds |-> "idle"]
    /\ dpc' = "gather"
    /\ tick_at' = clock
    /\ UNCHANGED << clock, db, session, redis_connected, cache_up, wake, triggered_count, fired >>

\* the query of the cycle raises: evaluate_rules logs it and returns
TickQueryFail ==
    /\ dpc = "start"
    /\ redis_connected
    /\ cycle_count < MaxCycles
    /\ cycle_count' = cycle_count + 1
    /\ store_error' = TRUE
    /\ ResetTasks
    /\ pc' = [r \in RuleIds |-> "idle"]
    /\ dpc' = "gather"
    /\ tick_at' = clock
    /\ UNCHANGED << clock, db, session, redis_connected, cache_up, wake, triggered_count,
                    loaded, fired >>

GatherFinishedAny == \E r \in RuleIds : pc[r] \in {"idle", "done"}

GatherFinishedOnFailure ==
    \/ \A r \in RuleIds : pc[r] \in {"idle", "done"}
    \/ \E r \in RuleIds : pc[r] = "done" /\ result[r] = "False"

\* asyncio.gather(*tasks, return_exceptions=True) returns
GatherFinished == \A r \in RuleIds : pc[r] \in {"idle", "done"}

\* sum(1 for res in results if res is True)
TriggeredCount == Cardinality({r \in RuleIds : pc[r] = "done" /\ result[r] = "True"})

\* evaluate_rules returns, get_db commits the session, the daemon sleeps
TickEnd ==
    /\ dpc = "gather"
    /\ GatherFinished
    /\ triggered_count' = TriggeredCount
    /\ db' = ApplyPending(db, session)
    /\ session' = NoPending
    /\ pc' = [r \in RuleIds |-> "idle"]
    /\ dpc' = "sleep"
    /\ wake' = clock + Interval
    /\ UNCHANGED << clock, redis_connected, cache_up, tick_at, cycle_count, loaded, idx,
                    log, stmt, result, fired, store_error >>

\* the commit of get_db raises and the daemon leaves its loop
TickEndFailStops ==
    /\ dpc = "gather"
    /\ GatherFinished
    /\ triggered_count' = TriggeredCount
    /\ session' = NoPending
    /\ pc' = [r \in RuleIds |-> "idle"]
    /\ dpc' = "stopped"
    /\ wake' = clock + RecoverySleep
    /\ store_error' = TRUE
    /\ UNCHANGED << clock, db, redis_connected, cache_up, tick_at, cycle_count, loaded,
                    idx, log, stmt, result, fired >>

\* the commit of get_db raises: rollback, the daemon logs and sleeps 10 s
TickEndFail ==
    /\ dpc = "gather"
    /\ GatherFinished
    /\ triggered_count' = TriggeredCount
    /\ session' = NoPending
    /\ pc' = [r \in RuleIds |-> "idle"]
    /\ dpc' = "recover"
    /\ wake' = clock + RecoverySleep
    /\ store_error' = TRUE
    /\ UNCHANGED << clock, db, redis_connected, cache_up, tick_at, cycle_count, loaded,
                    idx, log, stmt, result, fired >>

\* asyncio.sleep returns
Wake ==
    /\ dpc \in {"sleep", "recover"}
    /\ wake <= MaxTime
    /\ clock' = wake
    /\ dpc' = "start"
    /\ UNCHANGED << db, session, redis_connected, cache_up, wake, tick_at, cycle_count,
                    triggered_count, loaded, pc, idx, log, stmt, result, fired,
                    store_error >>


\* the cache server or the network fails: nothing in the worker's
\* RedisService notices it, _connected stays as connect() left it
CacheConnectionLost ==
    /\ cache_up
    /\ cache_up' = FALSE
    /\ UNCHANGED << clock, db, session, redis_connected, dpc, wake, tick_at,
                    cycle_count, triggered_count, loaded, pc, idx, log, stmt,
                    result, fired, store_error >>

\* the cache server is reachable again
CacheConnectionRestored ==
    /\ ~cache_up
    /\ cache_up' = TRUE
    /\ UNCHANGED << clock, db, session, redis_connected, dpc, wake, tick_at,
                    cycle_count, triggered_count, loaded, pc, idx, log, stmt,
                    result, fired, store_error >>

(***************************************************************************)
(* MQTT service: bounds                                                    *)
(***************************************************************************)
MaxCommands == 2        \* commands handed to publish_mqtt_message
MaxFrames == 2          \* frames the broker delivers

Commands == 1..MaxCommands

HandlerIds == 1..MaxFrames

SensorKeys == {"temp", "hum"}

(***************************************************************************)
(* JSON values of a frame and the conversions the sinks apply to them      *)
(***************************************************************************)
JInt(n) == [t |-> "int", n |-> n, s |-> ""]

JFloat(tenths) == [t |-> "float", n |-> tenths, s |-> ""]

JStr(s) == [t |-> "str", n |-> 0, s |-> s]

JNull == [t |-> "null", n |-> 0, s |-> ""]

JDict(repr) == [t |-> "dict", n |-> 0, s |-> repr]

FloatRepr(tenths) == ToString(tenths \div 10) \o "." \o ToString(tenths % 10)

\* str(value), as written to the cache
Str(v) ==
    CASE v.t = "int" -> ToString(v.n)
      [] v.t = "float" -> FloatRepr(v.n)
      [] v.t = "str" -> v.s
      [] v.t = "null" -> "None"
      [] OTHER -> v.s

\* float(value): the float's text, "ValueError" or "TypeError"
Float(v) ==
    CASE v.t = "int" -> FloatRepr(v.n * 10)
      [] v.t = "float" -> FloatRepr(v.n)
      [] v.t = "str" -> "ValueError"
      [] OTHER -> "TypeError"

\* a dict of a reading: a key that is absent has has_* = FALSE
Reading(has_id, sensor_id, has_type, sensor_type, has_value, value) ==
    [has_id |-> has_id, sensor_id |-> sensor_id,
     has_type |-> has_type, sensor_type |-> sensor_type,
     has_value |-> has_value, value |-> value]

\* one item of a "sensors" dict: key -> scalar, or key -> object
Item(key, is_obj, has_value, value, has_type, sensor_type, scalar) ==
    [key |-> key, is_obj |-> is_obj, has_value |-> has_value, value |-> value,
     has_type |-> has_type, sensor_type |-> sensor_type, scalar |-> scalar]

Scalar(key, v) == Item(key, FALSE, FALSE, JNull, FALSE, "", v)

Object(key, has_value, value, has_type, sensor_type, repr) ==
    Item(key, TRUE, has_value, value, has_type, sensor_type, JDict(repr))

\* a delivered frame: the payload after json.loads
Frame(json, form, items, list) ==
    [json |-> json, form |-> form, items |-> items, list |-> list]

FrameCatalog ==
    << \* not JSON
       Frame(FALSE, "absent", <<>>, <<>>),
       \* {"device": "d1"}: no "sensors" key
       Frame(TRUE, "absent", <<>>, <<>>),
       \* {"sensors": {"temp": 42, "hum": "abc"}}
       Frame(TRUE, "dict",
             << Scalar("temp", JInt(42)), Scalar("hum", JStr("abc")) >>, <<>>),
       \* {"sensors": {"temp": {"value": 17.5, "sensor_type": "T"}}}
       Frame(TRUE, "dict",
             << Object("temp", TRUE, JFloat(175), TRUE, "T", "") >>, <<>>),
       \* {"sensors": {"temp": {"unit": "C"}}}
       Frame(TRUE, "dict",
             << Object("temp", FALSE, JNull, FALSE, "", "{'unit': 'C'}") >>,
             <<>>),
       \* {"sensors": [{"sensor_id": "hum", "sensor_type": "H", "value": 60},
       \*              {"sensor_id": "temp", "sensor_type": "T"}]}
       Frame(TRUE, "list", <<>>,
             << Reading(TRUE, "hum", TRUE, "H", TRUE, JInt(60)),
                Reading(TRUE, "temp", TRUE, "T", FALSE, JNull) >>),
       \* {"sensors": {}}
       Frame(TRUE, "dict", <<>>, <<>>),
       \* {"sensors": {"temp": 42.0}}
       Frame(TRUE, "dict", << Scalar("temp", JFloat(420)) >>, <<>>) >>

NormalizeItem(it) ==
    IF it.is_obj /\ it.has_value
    THEN Reading(TRUE, it.key, TRUE,
                 IF it.has_type THEN it.sensor_type ELSE it.key,
                 TRUE, it.value)
    ELSE Reading(TRUE, it.key, TRUE, it.key, TRUE, it.scalar)

NormalizeSensorDataDictOnly(frame) ==
    CASE frame.form = "dict" ->
           [k \in 1..Len(frame.items) |-> NormalizeItem(frame.items[k])]
      [] OTHER -> <<>>

NormalizeSensorData(frame) ==
    CASE frame.form = "dict" ->
           [k \in 1..Len(frame.items) |-> NormalizeItem(frame.items[k])]
      [] frame.form = "list" -> frame.list
      [] OTHER -> <<>>

SensorsTruthyKeyPresent(frame) == frame.form # "absent"

\* the list _normalize_sensor_data returned, as its argument
AsList(readings) == Frame(TRUE, "list", <<>>, readings)

\* "if not sensors_data": the key is absent, or maps to an empty container
SensorsTruthy(frame) ==
    \/ frame.form = "dict" /\ frame.items # <<>>
    \/ frame.form = "list" /\ frame.list # <<>>

(***************************************************************************)
(* InfluxDBService.save_sensor_data up to its await                        *)
(***************************************************************************)
ValidReadingIdOnly(rd) == rd.has_id /\ rd.sensor_id # ""

\* all([sensor_id, sensor_type, value is not None])
ValidReading(rd) ==
    /\ rd.has_id /\ rd.sensor_id # ""
    /\ rd.has_type /\ rd.sensor_type # ""
    /\ rd.has_value /\ rd.value.t # "null"

Point(rd) ==
    [sensor_id |-> rd.sensor_id, sensor_type |-> rd.sensor_type,
     value |-> Float(rd.value)]

RECURSIVE Points(_, _)
\* the points built from readings k.. of the batch, or "TypeError"
Points(batch, k) ==
    IF k > Len(batch) THEN [raised |-> FALSE, points |-> <<>>]
    ELSE IF ~ValidReading(batch[k]) THEN Points(batch, k + 1)
    ELSE IF Float(batch[k].value) = "ValueError" THEN Points(batch, k + 1)
    ELSE IF Float(batch[k].value) = "TypeError"
         THEN [raised |-> TRUE, points |-> <<>>]
    ELSE LET rest == Points(batch, k + 1)
         IN  [raised |-> rest.raised,
              points |-> IF rest.raised THEN <<>>
                         ELSE <<Point(batch[k])>> \o rest.points]

\* position of save_sensor_data when it first suspends or returns
InfluxPrefix(batch) ==
    LET p == Points(batch, 1)
    IN  IF p.raised THEN "raised"
        ELSE IF p.points = <<>> THEN "skipped"
        ELSE "writing"

(***************************************************************************)
(* RedisService.update_cache_from_batch up to its await                    *)
(***************************************************************************)
\* sensor_data['sensor_id'] and sensor_data["value"] raise KeyError
PipelineRaises(batch) ==
    \E k \in 1..Len(batch) : ~batch[k].has_id \/ ~batch[k].has_value

\* a pipeline that skips over what it cannot read and sends the rest
RedisPrefixNeverRaises(batch) == "executing"

\* position of update_cache_from_batch when it first suspends or raises
RedisPrefix(batch) == IF PipelineRaises(batch) THEN "raised" ELSE "executing"

RECURSIVE ApplySets(_, _, _)
\* the SET commands of the pipeline, applied in order
ApplySets(c, batch, k) ==
    IF k > Len(batch) THEN c
    ELSE ApplySets([c EXCEPT ![batch[k].sensor_id] = Str(batch[k].value)],
                   batch, k + 1)

Absent == "(nil)"

(***************************************************************************)
(* MQTT service: state                                                     *)
(***************************************************************************)
VARIABLES
    svc,         \* lifespan of the application: "new", "up", "stopping", "stopped"
    running,     \* AsyncMQTTService._running
    connected,   \* AsyncMQTTService._connected
    client,      \* AsyncMQTTService.client is not None
    tasks,       \* AsyncMQTTService._tasks
    cancelled,   \* loop tasks on which cancel() was called
    cpc,         \* position of _connection_loop
    ppc,         \* position of _publish_loop
    queue,       \* AsyncMQTTService._publish_queue
    item,        \* the command the publish loop took from the queue
    enqueued,    \* history: commands handed to publish_mqtt_message
    published,   \* the commands the broker received, in order
    handlers,    \* the _handle_message tasks
    delivered,   \* number of frames delivered
    cache,       \* the cache sink: key sensor:<id> -> text
    tsdb         \* the time-series sink: points written

mqttVars ==
    << svc, running, connected, client, tasks, cancelled, cpc, ppc, queue,
       item, enqueued, published, handlers, delivered, cache, tsdb >>

\* start() and stop() called any number of times, by any callers
MaxStarts == 2          \* start() calls that create loops
MaxStops == 2           \* stop() calls

Gens == 1..MaxStarts

StopIds == 1..MaxStops

\* the tasks start() creates: <<"conn", g>> runs _connection_loop and
\* <<"pub", g>> runs _publish_loop, g counting the starts
LoopIds == {"conn", "pub"} \X Gens

VARIABLES
    loops,       \* every task start() created: position and pending cancel
    tracked,     \* AsyncMQTTService._tasks, as the set of its tasks
    stops,       \* the stop() calls: state and the tasks its gather awaits
    gen,         \* number of start() calls that created loops
    last_call    \* history: outcome of the last start() or stop() call

lifecycleVars == << loops, tracked, stops, gen, last_call >>

\* what a step of the rule worker leaves alone
nonWorkerVars == << mqttVars, lifecycleVars >>

\* what a step of the single-start MQTT service leaves alone
nonMqttVars == << workerVars, lifecycleVars >>

NoLoop == [pc |-> "none", cancel |-> FALSE]

NoStop == [st |-> "idle", snap |-> {}]

\* AsyncMQTTService.__init__: no task, no call yet
LifecycleInit ==
    /\ loops = [id \in LoopIds |-> NoLoop]
    /\ tracked = {}
    /\ stops = [s \in StopIds |-> NoStop]
    /\ gen = 0
    /\ last_call = "none"

NoItem == 0

\* asyncio.Queue(): maxsize 0, the queue is never full
maxsize == 0

Full(q) == maxsize > 0 /\ Len(q) >= maxsize

NoHandler == [frame |-> 0, hpc |-> "none", influx |-> "idle", redis |-> "idle"]

MqttInit ==
    /\ svc = "new"
    /\ running = FALSE
    /\ connected = FALSE
    /\ client = FALSE
    /\ tasks = {}
    /\ cancelled = {}
    /\ cpc = "none"
    /\ ppc = "none"
    /\ queue = <<>>
    /\ item = NoItem
    /\ enqueued = {}
    /\ published = <<>>
    /\ handlers = [h \in HandlerIds |-> NoHandler]
    /\ delivered = 0
    /\ cache = [k \in SensorKeys |-> Absent]
    /\ tsdb = <<>>
    /\ LifecycleInit

(***************************************************************************)
(* start, stop, publish_mqtt_message                                       *)
(***************************************************************************)
\* lifespan calls start() once, on a service that was just constructed
Start ==
    /\ svc = "new"
    /\ ~running
    /\ running' = TRUE
    /\ tasks' = {"conn", "pub"}
    /\ cpc' = "connect"
    /\ ppc' = "get"
    /\ svc' = "up"
    /\ UNCHANGED << connected, client, cancelled, queue, item, enqueued,
                    published, handlers, delivered, cache, tsdb >>

\* stop() up to its await of gather
StopBegin ==
    /\ svc = "up"
    /\ running' = FALSE
    /\ connected' = FALSE
    /\ cancelled' = tasks
    /\ svc' = "stopping"
    /\ UNCHANGED << client, tasks, cpc, ppc, queue, item, enqueued, published,
                    handlers, delivered, cache, tsdb >>

\* gather returned: every task of _tasks has ended
StopEnd ==
    /\ svc = "stopping"
    /\ "conn" \in tasks => cpc = "ended"
    /\ "pub" \in tasks => ppc = "ended"
    /\ tasks' = {}
    /\ svc' = "stopped"
    /\ UNCHANGED << running, connected, client, cancelled, cpc, ppc, queue,
                    item, enqueued, published, handlers, delivered, cache,
                    tsdb >>

PublishMqttMessageWhenConnected(c) ==
    /\ svc = "up"
    /\ connected
    /\ c \notin enqueued
    /\ ~Full(queue)
    /\ queue' = Append(queue, c)
    /\ enqueued' = enqueued \cup {c}
    /\ UNCHANGED << svc, running, connected, client, tasks, cancelled, cpc,
                    ppc, item, published, handlers, delivered, cache, tsdb >>

\* requests are served between start() and stop(); put() waits while the
\* queue is full
PublishMqttMessage(c) ==
    /\ svc = "up"
    /\ c \notin enqueued
    /\ ~Full(queue)
    /\ queue' = Append(queue, c)
    /\ enqueued' = enqueued \cup {c}
    /\ UNCHANGED << svc, running, connected, client, tasks, cancelled, cpc,
                    ppc, item, published, handlers, delivered, cache, tsdb >>

(***************************************************************************)
(* _connection_loop                                                        *)
(***************************************************************************)
ConnRuns == cpc \notin {"none", "ended"} /\ "conn" \notin cancelled

\* the finally block, then "if self._running: sleep" or the end of the loop
ConnDropped ==
    /\ connected' = FALSE
    /\ client' = FALSE
    /\ cpc' = IF running THEN "sleep" ELSE "ended"

ConnectOk ==
    /\ ConnRuns
    /\ cpc = "connect"
    /\ client' = TRUE
    /\ connected' = TRUE
    /\ cpc' = "subscribe"
    /\ UNCHANGED << svc, running, tasks, cancelled, ppc, queue, item,
                    enqueued, published, handlers, delivered, cache, tsdb >>

ConnectFail ==
    /\ ConnRuns
    /\ cpc = "connect"
    /\ ConnDropped
    /\ UNCHANGED << svc, running, tasks, cancelled, ppc, queue, item,
                    enqueued, published, handlers, delivered, cache, tsdb >>

SubscribeOk ==
    /\ ConnRuns
    /\ cpc = "subscribe"
    /\ cpc' = "stream"
    /\ UNCHANGED << svc, running, connected, client, tasks, cancelled, ppc,
                    queue, item, enqueued, published, handlers, delivered,
                    cache, tsdb >>

\* MqttError from subscribe or from the message iterator
ConnLost ==
    /\ ConnRuns
    /\ cpc \in {"subscribe", "stream"}
    /\ ConnDropped
    /\ UNCHANGED << svc, running, tasks, cancelled, ppc, queue, item,
                    enqueued, published, handlers, delivered, cache, tsdb >>

ReconnectWakeGivesUp ==
    /\ ConnRuns
    /\ cpc = "sleep"
    /\ cpc' = "ended"
    /\ UNCHANGED << svc, running, connected, client, tasks, cancelled, ppc,
                    queue, item, enqueued, published, handlers, delivered,
                    cache, tsdb >>

\* asyncio.sleep(reconnect_interval) returned: "while self._running"
ReconnectWake ==
    /\ ConnRuns
    /\ cpc = "sleep"
    /\ cpc' = IF running THEN "connect" ELSE "ended"
    /\ UNCHANGED << svc, running, connected, client, tasks, cancelled, ppc,
                    queue, item, enqueued, published, handlers, delivered,
                    cache, tsdb >>

\* a handler that dropped its frame or had a sink raise
HandlerFailed(h) ==
    \/ handlers[h].hpc = "done" /\ handlers[h].influx = "idle"
    \/ handlers[h].influx = "raised"
    \/ handlers[h].redis = "raised"

DeliverUnlessHandlerFailed(f) ==
    /\ ConnRuns
    /\ cpc = "stream"
    /\ delivered < MaxFrames
    /\ \A h \in HandlerIds : ~HandlerFailed(h)
    /\ delivered' = delivered + 1
    /\ handlers' = [handlers EXCEPT ![delivered + 1] =
                        [frame |-> f, hpc |-> "new",
                         influx |-> "idle", redis |-> "idle"]]
    /\ UNCHANGED << svc, running, connected, client, tasks, cancelled, cpc,
                    ppc, queue, item, enqueued, published, cache, tsdb >>

\* a frame arrives: "if not self._running: break", else create_task
Deliver(f) ==
    /\ ConnRuns
    /\ cpc = "stream"
    /\ delivered < MaxFrames
    /\ delivered' = delivered + 1
    /\ IF ~running
       THEN /\ ConnDropped
            /\ UNCHANGED handlers
       ELSE /\ handlers' = [handlers EXCEPT ![delivered + 1] =
                               [frame |-> f, hpc |-> "new",
                                influx |-> "idle", redis |-> "idle"]]
            /\ UNCHANGED << connected, client, cpc >>
    /\ UNCHANGED << svc, running, tasks, cancelled, ppc, queue, item,
                    enqueued, published, cache, tsdb >>

\* CancelledError is thrown into the loop: only the finally block runs
ConnCancelled ==
    /\ "conn" \in cancelled
    /\ cpc \in {"connect", "subscribe", "stream", "sleep"}
    /\ connected' = FALSE
    /\ client' = FALSE
    /\ cpc' = "ended"
    /\ UNCHANGED << svc, running, tasks, cancelled, ppc, queue, item,
                    enqueued, published, handlers, delivered, cache, tsdb >>

(***************************************************************************)
(* _publish_loop                                                           *)
(***************************************************************************)
PubRuns == ppc \notin {"none", "ended"} /\ "pub" \notin cancelled

\* from the end of the wait loop to the next await, holding command c
AfterWait(c) ==
    IF ~running THEN /\ ppc' = "ended"
                     /\ item' = NoItem
    ELSE IF client THEN /\ ppc' = "publish"
                        /\ item' = c
    ELSE /\ ppc' = "get"
         /\ item' = NoItem

PubGet ==
    /\ PubRuns
    /\ ppc = "get"
    /\ queue # <<>>
    /\ queue' = Tail(queue)
    /\ IF running /\ ~connected
       THEN /\ ppc' = "wait"
            /\ item' = Head(queue)
       ELSE AfterWait(Head(queue))
    /\ UNCHANGED << svc, running, connected, client, tasks, cancelled, cpc,
                    enqueued, published, handlers, delivered, cache, tsdb >>

\* asyncio.sleep(0.5) returned and the wait loop ends
PubPoll ==
    /\ PubRuns
    /\ ppc = "wait"
    /\ ~(running /\ ~connected)
    /\ AfterWait(item)
    /\ UNCHANGED << svc, running, connected, client, tasks, cancelled, cpc,
                    queue, enqueued, published, handlers, delivered, cache,
                    tsdb >>

\* "while self._running" after an iteration
PubAgain == IF running THEN "get" ELSE "ended"

PublishOk ==
    /\ PubRuns
    /\ ppc = "publish"
    /\ client
    /\ published' = Append(published, item)
    /\ item' = NoItem
    /\ ppc' = PubAgain
    /\ UNCHANGED << svc, running, connected, client, tasks, cancelled, cpc,
                    queue, enqueued, handlers, delivered, cache, tsdb >>

\* client.publish raises and the command is put back into the queue
PublishFailRequeues ==
    /\ PubRuns
    /\ ppc = "publish"
    /\ queue' = Append(queue, item)
    /\ item' = NoItem
    /\ ppc' = PubAgain
    /\ UNCHANGED << svc, running, connected, client, tasks, cancelled, cpc,
                    enqueued, published, handlers, delivered, cache, tsdb >>

\* client.publish raises: "except Exception" logs and the loop goes on
PublishFail ==
    /\ PubRuns
    /\ ppc = "publish"
    /\ item' = NoItem
    /\ ppc' = PubAgain
    /\ UNCHANGED << svc, running, connected, client, tasks, cancelled, cpc,
                    queue, enqueued, published, handlers, delivered, cache,
                    tsdb >>

\* "except asyncio.CancelledError: break"
PubCancelled ==
    /\ "pub" \in cancelled
    /\ ppc \in {"get", "wait", "publish"}
    /\ item' = NoItem
    /\ ppc' = "ended"
    /\ UNCHANGED << svc, running, connected, client, tasks, cancelled, cpc,
                    queue, enqueued, published, handlers, delivered, cache,
                    tsdb >>

(***************************************************************************)
(* _handle_message                                                         *)
(***************************************************************************)
Batch(h) == NormalizeSensorData(FrameCatalog[handlers[h].frame])

InfluxFinal(h) == handlers[h].influx \in {"ok", "raised", "skipped"}

RedisFinal(h) == handlers[h].redis \in {"ok", "raised"}

GatherReturnedAtFirstError(h) ==
    \/ InfluxFinal(h) /\ RedisFinal(h)
    \/ handlers[h].influx = "raised"
    \/ handlers[h].redis = "raised"

\* gather(..., return_exceptions=True) over the two _safe_save_ wrappers
GatherReturned(h) == InfluxFinal(h) /\ RedisFinal(h)

\* the handler up to the await of gather, with both sinks up to their await
HandlerStart(h) ==
    /\ handlers[h].hpc = "new"
    /\ LET frame == FrameCatalog[handlers[h].frame]
           batch == NormalizeSensorData(frame)
       IN  IF ~frame.json \/ ~SensorsTruthy(frame)
           THEN handlers' = [handlers EXCEPT ![h].hpc = "done"]
           ELSE handlers' = [handlers EXCEPT ![h].hpc = "saving",
                                             ![h].influx = InfluxPrefix(batch),
                                             ![h].redis = RedisPrefix(batch)]
    /\ UNCHANGED << svc, running, connected, client, tasks, cancelled, cpc,
                    ppc, queue, item, enqueued, published, delivered, cache,
                    tsdb >>

InfluxWriteOk(h) ==
    /\ handlers[h].hpc = "saving"
    /\ handlers[h].influx = "writing"
    /\ tsdb' = tsdb \o Points(Batch(h), 1).points
    /\ handlers' = [handlers EXCEPT ![h].influx = "ok"]
    /\ UNCHANGED << svc, running, connected, client, tasks, cancelled, cpc,
                    ppc, queue, item, enqueued, published, delivered, cache >>

InfluxWriteFail(h) ==
    /\ handlers[h].hpc = "saving"
    /\ handlers[h].influx = "writing"
    /\ handlers' = [handlers EXCEPT ![h].influx = "raised"]
    /\ UNCHANGED << svc, running, connected, client, tasks, cancelled, cpc,
                    ppc, queue, item, enqueued, published, delivered, cache,
                    tsdb >>

RedisExecOk(h) ==
    /\ handlers[h].hpc = "saving"
    /\ handlers[h].redis = "executing"
    /\ cache' = ApplySets(cache, Batch(h), 1)
    /\ handlers' = [handlers EXCEPT ![h].redis = "ok"]
    /\ UNCHANGED << svc, running, connected, client, tasks, cancelled, cpc,
                    ppc, queue, item, enqueued, published, delivered, tsdb >>

RedisExecFail(h) ==
    /\ handlers[h].hpc = "saving"
    /\ handlers[h].redis = "executing"
    /\ handlers' = [handlers EXCEPT ![h].redis = "raised"]
    /\ UNCHANGED << svc, running, connected, client, tasks, cancelled, cpc,
                    ppc, queue, item, enqueued, published, delivered, cache,
                    tsdb >>

HandlerEnd(h) ==
    /\ handlers[h].hpc = "saving"
    /\ GatherReturned(h)
    /\ handlers' = [handlers EXCEPT ![h].hpc = "done"]
    /\ UNCHANGED << svc, running, connected, client, tasks, cancelled, cpc,
                    ppc, queue, item, enqueued, published, delivered, cache,
                    tsdb >>

(***************************************************************************)
(* start() and stop() called repeatedly and concurrently                   *)
(***************************************************************************)
\* a task that has not finished
Alive(id) == loops[id].pc \notin {"none", "ended"}

OtherMqttVars ==
    << svc, tasks, cancelled, cpc, ppc, queue, item, enqueued, published,
       handlers, delivered, cache, tsdb >>

\* start(): returns at once when _running is set, else sets it and appends
\* two new tasks to _tasks; no await in between
StartCall ==
    /\ IF running
       THEN /\ last_call' = "already_running"
            /\ UNCHANGED << running, loops, tracked, gen >>
       ELSE /\ gen < MaxStarts
            /\ running' = TRUE
            /\ gen' = gen + 1
            /\ loops' = [id \in LoopIds |->
                            IF id[2] = gen + 1
                            THEN [pc |-> "created", cancel |-> FALSE]
                            ELSE loops[id]]
            /\ tracked' = tracked \cup {<<"conn", gen + 1>>, <<"pub", gen + 1>>}
            /\ last_call' = "started"
    /\ UNCHANGED << connected, client, stops, OtherMqttVars >>

\* stop() up to "await asyncio.gather(*self._tasks)": the flags are cleared
\* and every task of _tasks that has not finished is cancelled; with an
\* empty _tasks the call clears it and returns
StopCall(s) ==
    /\ stops[s].st = "idle"
    /\ running' = FALSE
    /\ connected' = FALSE
    /\ loops' = [id \in LoopIds |->
                    IF id \in tracked /\ Alive(id)
                    THEN [loops[id] EXCEPT !.cancel = TRUE]
                    ELSE loops[id]]
    /\ stops' = [stops EXCEPT ![s] =
                    IF tracked = {} THEN [st |-> "returned", snap |-> {}]
                    ELSE [st |-> "waiting", snap |-> tracked]]
    /\ last_call' = "stop"
    /\ UNCHANGED << client, tracked, gen, OtherMqttVars >>

\* gather returned (every task it was given has finished):
\* self._tasks.clear() and stop() returns
StopReturn(s) ==
    /\ stops[s].st = "waiting"
    /\ \A id \in stops[s].snap : ~Alive(id)
    /\ tracked' = {}
    /\ stops' = [stops EXCEPT ![s].st = "returned"]
    /\ UNCHANGED << running, connected, client, loops, gen, last_call,
                    OtherMqttVars >>

\* a created task runs for the first time: "while self._running"
LoopBegin(id) ==
    /\ loops[id].pc = "created"
    /\ ~loops[id].cancel
    /\ loops' = [loops EXCEPT ![id].pc =
                    IF ~running THEN "ended"
                    ELSE IF id[1] = "conn" THEN "connect" ELSE "get"]
    /\ UNCHANGED << running, connected, client, tracked, stops, gen,
                    last_call, OtherMqttVars >>

\* CancelledError is thrown into the task at its await; a connection loop
\* inside its try block runs the finally block; a task cancelled before its
\* first step never runs its body
LoopCancelled(id) ==
    /\ Alive(id)
    /\ loops[id].cancel
    /\ loops' = [loops EXCEPT ![id] = [pc |-> "ended", cancel |-> FALSE]]
    /\ IF id[1] = "conn" /\ loops[id].pc \in {"connect", "stream"}
       THEN connected' = FALSE /\ client' = FALSE
       ELSE UNCHANGED << connected, client >>
    /\ UNCHANGED << running, tracked, stops, gen, last_call, OtherMqttVars >>

\* the client context is entered and the topic subscribed
LoopConnectOk(g) ==
    /\ loops[<<"conn", g>>].pc = "connect"
    /\ ~loops[<<"conn", g>>].cancel
    /\ client' = TRUE
    /\ connected' = TRUE
    /\ loops' = [loops EXCEPT ![<<"conn", g>>].pc = "stream"]
    /\ UNCHANGED << running, tracked, stops, gen, last_call, OtherMqttVars >>

\* MqttError while connecting or streaming, or a frame that arrives after
\* _running was cleared ("break"): the finally block, then the sleep before
\* the reconnect or the end of the loop
LoopConnDropped(g) ==
    /\ loops[<<"conn", g>>].pc \in {"connect", "stream"}
    /\ ~loops[<<"conn", g>>].cancel
    /\ connected' = FALSE
    /\ client' = FALSE
    /\ loops' = [loops EXCEPT ![<<"conn", g>>].pc =
                    IF running THEN "sleep" ELSE "ended"]
    /\ UNCHANGED << running, tracked, stops, gen, last_call, OtherMqttVars >>

\* asyncio.sleep(reconnect_interval) returned: "while self._running"
LoopReconnectWake(g) ==
    /\ loops[<<"conn", g>>].pc = "sleep"
    /\ ~loops[<<"conn", g>>].cancel
    /\ loops' = [loops EXCEPT ![<<"conn", g>>].pc =
                    IF running THEN "connect" ELSE "ended"]
    /\ UNCHANGED << running, connected, client, tracked, stops, gen,
                    last_call, OtherMqttVars >>

vars == << workerVars, mqttVars, lifecycleVars >>

Init == WorkerInit /\ MqttInit

WorkerNext ==
    \/ TickStart /\ UNCHANGED nonWorkerVars
    \/ TickQueryFail /\ UNCHANGED nonWorkerVars
    \/ \E r \in RuleIds : TaskStart(r) /\ UNCHANGED nonWorkerVars
    \/ \E r \in RuleIds, ok \in BOOLEAN, d \in {0, LongPost} :
          PostDone(r, ok, d) /\ UNCHANGED nonWorkerVars
    \/ \E r \in RuleIds : ExecuteOk(r) /\ UNCHANGED nonWorkerVars
    \/ \E r \in RuleIds : ExecuteFail(r) /\ UNCHANGED nonWorkerVars
    \/ \E r \in RuleIds : CommitOk(r) /\ UNCHANGED nonWorkerVars
    \/ \E r \in RuleIds : CommitFail(r) /\ UNCHANGED nonWorkerVars
    \/ \E r \in RuleIds : RollbackOk(r) /\ UNCHANGED nonWorkerVars
    \/ \E r \in RuleIds : RollbackFail(r) /\ UNCHANGED nonWorkerVars
    \/ TickEnd /\ UNCHANGED nonWorkerVars
    \/ TickEndFail /\ UNCHANGED nonWorkerVars
    \/ Wake /\ UNCHANGED nonWorkerVars

Next == WorkerNext

\* the rule evaluation daemon
Spec == Init /\ [][Next]_vars

MqttSpecInit ==
    /\ WorkerInit
    /\ db = [r \in RuleIds |-> RuleCatalog[1]]
    /\ MqttInit

\* start, stop and the connection loop
LifecycleNext ==
    \/ Start /\ UNCHANGED nonMqttVars
    \/ StopBegin /\ UNCHANGED nonMqttVars
    \/ StopEnd /\ UNCHANGED nonMqttVars
    \/ ConnectOk /\ UNCHANGED nonMqttVars
    \/ ConnectFail /\ UNCHANGED nonMqttVars
    \/ SubscribeOk /\ UNCHANGED nonMqttVars
    \/ ConnLost /\ UNCHANGED nonMqttVars
    \/ ReconnectWake /\ UNCHANGED nonMqttVars
    \/ ConnCancelled /\ UNCHANGED nonMqttVars
    \/ PubCancelled /\ UNCHANGED nonMqttVars

PublishNext ==
    \/ LifecycleNext
    \/ \E c \in Commands : PublishMqttMessage(c) /\ UNCHANGED nonMqttVars
    \/ PubGet /\ UNCHANGED nonMqttVars
    \/ PubPoll /\ UNCHANGED nonMqttVars
    \/ PublishOk /\ UNCHANGED nonMqttVars
    \/ PublishFail /\ UNCHANGED nonMqttVars

\* the MQTT service publishing commands, no frame being delivered
PublishSpec == MqttSpecInit /\ [][PublishNext]_vars

IngestNext ==
    \/ LifecycleNext
    \/ \E f \in 1..Len(FrameCatalog) : Deliver(f) /\ UNCHANGED nonMqttVars
    \/ \E h \in HandlerIds : HandlerStart(h) /\ UNCHANGED nonMqttVars
    \/ \E h \in HandlerIds : InfluxWriteOk(h) /\ UNCHANGED nonMqttVars
    \/ \E h \in HandlerIds : InfluxWriteFail(h) /\ UNCHANGED nonMqttVars
    \/ \E h \in HandlerIds : RedisExecOk(h) /\ UNCHANGED nonMqttVars
    \/ \E h \in HandlerIds : RedisExecFail(h) /\ UNCHANGED nonMqttVars
    \/ \E h \in HandlerIds : HandlerEnd(h) /\ UNCHANGED nonMqttVars

\* the MQTT service ingesting frames, no command being enqueued
IngestSpec == MqttSpecInit /\ [][IngestNext]_vars

\* the service is connected and subscribed, and the connection loop has
\* created a handler task for each of MaxFrames frames
HandlerSpecInit ==
    /\ WorkerInit
    /\ db = [r \in RuleIds |-> RuleCatalog[1]]
    /\ svc = "up"
    /\ running = TRUE
    /\ connected = TRUE
    /\ client = TRUE
    /\ tasks = {"conn", "pub"}
    /\ cancelled = {}
    /\ cpc = "stream"
    /\ ppc = "get"
    /\ queue = <<>>
    /\ item = NoItem
    /\ enqueued = {}
    /\ published = <<>>
    /\ handlers \in [HandlerIds ->
                        { [frame |-> f, hpc |-> "new", influx |-> "idle",
                           redis |-> "idle"] : f \in 1..Len(FrameCatalog) }]
    /\ delivered = MaxFrames
    /\ cache = [k \in SensorKeys |-> Absent]
    /\ tsdb = <<>>
    /\ LifecycleInit

HandlerNext ==
    \/ \E h \in HandlerIds : HandlerStart(h) /\ UNCHANGED nonMqttVars
    \/ \E h \in HandlerIds : InfluxWriteOk(h) /\ UNCHANGED nonMqttVars
    \/ \E h \in HandlerIds : InfluxWriteFail(h) /\ UNCHANGED nonMqttVars
    \/ \E h \in HandlerIds : RedisExecOk(h) /\ UNCHANGED nonMqttVars
    \/ \E h \in HandlerIds : RedisExecFail(h) /\ UNCHANGED nonMqttVars
    \/ \E h \in HandlerIds : HandlerEnd(h) /\ UNCHANGED nonMqttVars

\* the frame handlers of delivered frames and the two sinks
HandlerSpec == HandlerSpecInit /\ [][HandlerNext]_vars

\* one frame {"sensors": {"temp": 42.0}} has been delivered; the rule store
\* holds a threshold rule on sensor temp with expression value > 40
EndToEndInit ==
    /\ WorkerInit
    /\ db = [r \in RuleIds |-> IF r = "rA" THEN RuleCatalog[1]
                                ELSE RuleCatalog[6]]
    /\ svc = "up"
    /\ running = TRUE
    /\ connected = TRUE
    /\ client = TRUE
    /\ tasks = {"conn", "pub"}
    /\ cancelled = {}
    /\ cpc = "stream"
    /\ ppc = "get"
    /\ queue = <<>>
    /\ item = NoItem
    /\ enqueued = {}
    /\ published = <<>>
    /\ handlers = [h \in HandlerIds |->
                     IF h = 1 THEN [frame |-> Len(FrameCatalog), hpc |-> "new",
                                    influx |-> "idle", redis |-> "idle"]
                     ELSE NoHandler]
    /\ delivered = 1
    /\ cache = [k \in SensorKeys |-> Absent]
    /\ tsdb = <<>>
    /\ LifecycleInit

EndToEndNext ==
    \/ HandlerNext
    \/ WorkerNext

\* the frame handler and the rule evaluation daemon side by side
EndToEndSpec == EndToEndInit /\ [][EndToEndNext]_vars

\* the frames the broker delivers in ReconnectSpec: one that is not JSON and
\* one with a list of readings
ReconnectFrames == {1, 6}

SinkDone(h) ==
    \/ InfluxWriteOk(h) \/ InfluxWriteFail(h)
    \/ RedisExecOk(h) \/ RedisExecFail(h)

ReconnectNext ==
    \/ LifecycleNext
    \/ \E f \in ReconnectFrames : Deliver(f) /\ UNCHANGED nonMqttVars
    \/ \E h \in HandlerIds : HandlerStart(h) /\ UNCHANGED nonMqttVars
    \/ \E h \in HandlerIds : SinkDone(h) /\ UNCHANGED nonMqttVars
    \/ \E h \in HandlerIds : HandlerEnd(h) /\ UNCHANGED nonMqttVars

\* The event loop runs a task that is ready and every sleep and sink request
\* ends (weak fairness; the handlers take finitely many steps, so fairness
\* over all of them together makes each of them finish); the broker is reachable again and again
\* and keeps sending frames (strong fairness: a connection that is lost
\* again and again does not count against it).
ReconnectFairness ==
    /\ WF_vars(ReconnectWake /\ UNCHANGED nonMqttVars)
    /\ SF_vars(ConnectOk /\ UNCHANGED nonMqttVars)
    /\ SF_vars(SubscribeOk /\ UNCHANGED nonMqttVars)
    /\ SF_vars(\E f \in ReconnectFrames : Deliver(f) /\ UNCHANGED nonMqttVars)
    /\ WF_vars(\E h \in HandlerIds :
                  /\ HandlerStart(h) \/ SinkDone(h) \/ HandlerEnd(h)
                  /\ UNCHANGED nonMqttVars)

\* the MQTT service ingesting frames over a connection that comes and goes
ReconnectSpec == MqttSpecInit /\ [][ReconnectNext]_vars /\ ReconnectFairness

\* the daemon with two rules that match, one of them posting to a device
SchedulerInit ==
    /\ WorkerInit
    /\ db = [r \in RuleIds |-> IF r = "rA" THEN RuleCatalog[1]
                                ELSE RuleCatalog[6]]
    /\ MqttInit

\* one step of an evaluate_single_rule task
TaskStep(r) ==
    \/ TaskStart(r)
    \/ \E ok \in BOOLEAN, d \in {0, LongPost} : PostDone(r, ok, d)
    \/ ExecuteOk(r) \/ ExecuteFail(r)
    \/ CommitOk(r) \/ CommitFail(r)
    \/ RollbackOk(r) \/ RollbackFail(r)

\* the event loop runs every task that can run; every awaited request has a
\* timeout, every sleep returns, and the loop body starts over after it
SchedulerFairness ==
    /\ WF_vars(\E r \in RuleIds : TaskStep(r) /\ UNCHANGED nonWorkerVars)
    /\ WF_vars((TickEnd \/ TickEndFail) /\ UNCHANGED nonWorkerVars)
    /\ WF_vars(Wake /\ UNCHANGED nonWorkerVars)
    /\ WF_vars((TickStart \/ TickQueryFail) /\ UNCHANGED nonWorkerVars)

\* the rule evaluation daemon under a fair event loop
SchedulerSpec == SchedulerInit /\ [][WorkerNext]_vars /\ SchedulerFairness

OutageNext ==
    \/ WorkerNext
    \/ CacheConnectionLost /\ UNCHANGED nonWorkerVars
    \/ CacheConnectionRestored /\ UNCHANGED nonWorkerVars

\* the rule evaluation daemon while the cache server comes and goes
OutageSpec == SchedulerInit /\ [][OutageNext]_vars

LifecycleCallsNext ==
    \/ StartCall /\ UNCHANGED workerVars
    \/ \E s \in StopIds : StopCall(s) /\ UNCHANGED workerVars
    \/ \E s \in StopIds : StopReturn(s) /\ UNCHANGED workerVars
    \/ \E id \in LoopIds : LoopBegin(id) /\ UNCHANGED workerVars
    \/ \E id \in LoopIds : LoopCancelled(id) /\ UNCHANGED workerVars
    \/ \E g \in Gens : LoopConnectOk(g) /\ UNCHANGED workerVars
    \/ \E g \in Gens : LoopConnDropped(g) /\ UNCHANGED workerVars
    \/ \E g \in Gens : LoopReconnectWake(g) /\ UNCHANGED workerVars

\* the MQTT service under any callers of start() and stop(), the command
\* queue staying empty
LifecycleSpec == MqttSpecInit /\ [][LifecycleCallsNext]_vars

(***************************************************************************)
(* Properties of the rule worker                                           *)
(***************************************************************************)
IdsOf(lg) == [k \in 1..Len(lg) |-> lg[k].action_id]

\* position of an action in the rule's declared list
Pos(actions, id) == CHOOSE k \in 1..Len(actions) : actions[k].action_id = id

\* action p is due before action q: smaller execution_order, or equal
\* execution_order and declared earlier
Before(actions, p, q) ==
    \/ actions[p].execution_order < actions[q].execution_order
    \/ /\ actions[p].execution_order = actions[q].execution_order
       /\ p < q

\* the loop over the actions of rule r has ended in this cycle
LoopEnded(r) ==
    \/ pc[r] \in {"exec", "commit", "rollback"}
    \/ pc[r] = "done" /\ log[r] # <<>>

\* C1: a rule whose stored last_triggered_at T is set and whose evaluation
\* time t has t - T < cooldown_seconds (a naive T read as UTC) ends its
\* evaluation at once: not triggered, no action executed, nothing dispatched.
C1_CooldownBlocks ==
    [][\A r \in RuleIds :
        ( /\ pc[r] = "ready"
          /\ pc'[r] # "ready"
          /\ db[r].last_triggered_at.kind # "none"
          /\ clock - ToUtc(db[r].last_triggered_at) < db[r].cooldown_seconds )
        => ( /\ pc'[r] = "done"
             /\ result'[r] = "False"
             /\ log'[r] = <<>>
             /\ fired'[r] = fired[r]
             /\ db' = db )]_vars

\* a rule that would match was evaluated on cooldown (aware timestamp with a
\* UTC offset) and reported not triggered
C1_Witness ==
    \E r \in RuleIds :
        /\ pc[r] = "done"
        /\ result[r] = "False"
        /\ log[r] = <<>>
        /\ loaded[r].last_triggered_at.kind = "aware"
        /\ loaded[r].last_triggered_at.off # 0
        /\ tick_at - ToUtc(loaded[r].last_triggered_at) < loaded[r].cooldown_seconds
        /\ loaded[r].rule_expression = "true"

\* C2: two successive action dispatches of a rule are separated by at least
\* cooldown_seconds.
C2_CooldownSeparation ==
    \A r \in RuleIds :
        Len(fired[r]) = 2 => fired[r][2] - fired[r][1] >= db[r].cooldown_seconds

\* C3: the actions of a matched rule are started in ascending execution_order,
\* equal orders in declaration order, none is skipped over, and an action is
\* started only when the handler of the previous one has returned.
C3_ActionOrder ==
    \A r \in RuleIds :
        LET actions == loaded[r].actions
            ids == IdsOf(log[r])
        IN  /\ \A i, j \in 1..Len(ids) :
                   i < j => Before(actions, Pos(actions, ids[i]), Pos(actions, ids[j]))
            /\ \A k \in 1..Len(actions) :
                   (\A i \in 1..Len(ids) : ids[i] # actions[k].action_id)
                   => \A i \in 1..Len(ids) : Before(actions, Pos(actions, ids[i]), k)
            /\ \A i \in 1..Len(ids) : log[r][i].outcome = "post" => i = Len(ids)

\* execution_order [3,1,2] has run as [1,2,3], and three actions with
\* execution_order [1,1,0] have run third, first, second
C3_Witness ==
    /\ \E r \in RuleIds :
          /\ LoopEnded(r)
          /\ IdsOf(log[r]) = <<"a2", "a3", "a1">>
    /\ \E r \in RuleIds :
          /\ LoopEnded(r)
          /\ IdsOf(log[r]) = <<"b3", "b1", "b2">>

\* the UPDATE of rule r was issued and the rule store holds its value
Stored(r) ==
    /\ stmt[r].kind = "aware"
    /\ db[r].last_triggered_at = stmt[r]
    /\ tick_at <= ToUtc(stmt[r])
    /\ ToUtc(stmt[r]) <= clock

C5_EveryActionOnce ==
    \A r \in RuleIds :
        LoopEnded(r) =>
            LET actions == loaded[r].actions IN
            /\ Len(log[r]) = Len(actions)
            /\ \A k \in 1..Len(actions) :
                   /\ Cardinality({i \in 1..Len(log[r]) :
                                      log[r][i].action_id = actions[k].action_id}) = 1
                   /\ \A i \in 1..Len(log[r]) :
                          log[r][i].action_id = actions[k].action_id =>
                              /\ log[r][i].outcome \in {"ok", "failed", "raised", "unknown"}
                              /\ actions[k].action_type.enum
                                     => log[r][i].outcome = "unknown"
                              /\ actions[k].action_payload = "bad"
                                     => ~Success(log[r][i].outcome)

\* an HTTP failure of the first action, a False of the second, and the third
\* action still ran; and an unknown type followed by a raising handler
C5_Witness ==
    /\ \E r \in RuleIds :
          /\ LoopEnded(r)
          /\ Len(log[r]) = 3
          /\ log[r][1].outcome = "failed"
          /\ log[r][2].outcome = "failed"
          /\ log[r][3].outcome = "ok"
    /\ \E r \in RuleIds :
          /\ LoopEnded(r)
          /\ Len(log[r]) = 3
          /\ log[r][2].outcome = "unknown"
          /\ log[r][3].outcome = "raised"

\* the evaluation of rule r failed: expression error or a handler that raised
EvaluationFailed(r) ==
    \/ Decision(loaded[r], tick_at) \in {"syntax", "error"}
    \/ \E k \in 1..Len(log[r]) : log[r][k].outcome = "raised"

\* what rule r's own data determine for the cycle
OwnOutcome(r) ==
    IF ~loaded[r].is_active
    THEN /\ result[r] = "none"
         /\ log[r] = <<>>
         /\ db[r] = loaded[r]
    ELSE IF Decision(loaded[r], tick_at) = "match"
    THEN /\ result[r] = "True"
         /\ Len(log[r]) = Len(loaded[r].actions)
         /\ \A k \in 1..Len(log[r]) : log[r][k].outcome # "post"
         /\ Stored(r)
    ELSE /\ result[r] = "False"
         /\ log[r] = <<>>
         /\ db[r] = loaded[r]

\* C6: after a cycle in which the evaluation of rule a failed (syntax error,
\* handler exception), every other rule b has its own match decision, all its
\* actions and its own last_triggered_at write.
C6_RuleIsolation ==
    \A a, b \in RuleIds :
        ( /\ a # b
          /\ dpc \in {"sleep", "recover"}
          /\ loaded[a].is_active
          /\ EvaluationFailed(a)
          /\ ~store_error )
        => OwnOutcome(b)

\* a cycle has ended in which one rule had a syntax error, another rule a
\* raising handler, and both other rules matched and were stored
C6_Witness ==
    /\ dpc = "sleep"
    /\ ~store_error
    /\ \E a, b \in RuleIds :
          /\ a # b
          /\ Decision(loaded[a], tick_at) = "syntax"
          /\ result[b] = "True"
          /\ Stored(b)
          /\ \E k \in 1..Len(log[b]) : log[b][k].outcome = "raised"

\* C7: a cycle ends, and the daemon goes to sleep before the next one, only
\* when every rule evaluation of the cycle has finished; outside a cycle no
\* evaluation is running.
C7_NoOverlap ==
    [][ /\ (dpc = "gather" /\ dpc' # "gather")
            => \A r \in RuleIds : pc[r] \in {"idle", "done"}
        /\ dpc' # "gather" => \A r \in RuleIds : pc'[r] = "idle"
        /\ cycle_count' # cycle_count
            => \A r \in RuleIds : pc[r] = "idle" ]_vars

\* a second cycle runs after a first one that took longer than the interval
C7_Witness ==
    /\ cycle_count = 2
    /\ dpc = "gather"
    /\ tick_at > 2 * Interval
    /\ tick_at < RecoverySleep
    /\ \E r \in RuleIds : pc[r] = "ready"

(***************************************************************************)
(* Properties of the MQTT service                                          *)
(***************************************************************************)
SinkRaisedIn(h) ==
    \/ handlers[h].influx # "raised" /\ handlers'[h].influx = "raised"
    \/ handlers[h].redis # "raised" /\ handlers'[h].redis = "raised"

\* C8: the two sink writes of a batch are independent.  When the
\* time-series write raised, the cache update of the same batch can still
\* be performed, puts the batch's values into the cache, and has been
\* attempted by the time the handler ends; symmetrically when the cache
\* update raised; and a raising sink ends neither the handler abnormally
\* nor the connection loop.
C8_SinkIsolation ==
    [][ \A h \in HandlerIds :
          /\ handlers'[h].hpc = "done" /\ handlers'[h].influx = "raised"
                => RedisFinal(h)'
          /\ handlers'[h].hpc = "done" /\ handlers'[h].redis = "raised"
                => InfluxFinal(h)'
          /\ handlers[h].influx = "raised" /\ handlers[h].redis = "executing"
                => /\ ENABLED RedisExecOk(h)
                   /\ handlers'[h].redis = "ok"
                         => cache' = ApplySets(cache, Batch(h), 1)
          /\ handlers[h].redis = "raised" /\ handlers[h].influx = "writing"
                => /\ ENABLED InfluxWriteOk(h)
                   /\ handlers'[h].influx = "ok"
                         => tsdb' = tsdb \o Points(Batch(h), 1).points
          /\ SinkRaisedIn(h)
                => /\ handlers'[h].hpc = "saving"
                   /\ UNCHANGED << running, connected, client, cpc, ppc >>
      ]_vars

\* one handler ended after the time-series write raised and the cache took
\* its batch; another ended after the cache update raised and its valid
\* reading was written to the time series
C8_Witness ==
    \E h1, h2 \in HandlerIds :
        /\ handlers[h1].frame = 3
        /\ handlers[h1].hpc = "done"
        /\ handlers[h1].influx = "raised"
        /\ handlers[h1].redis = "ok"
        /\ cache["temp"] = "42" /\ cache["hum"] = "abc"
        /\ handlers[h2].frame = 6
        /\ handlers[h2].hpc = "done"
        /\ handlers[h2].redis = "raised"
        /\ handlers[h2].influx = "ok"
        /\ tsdb = << [sensor_id |-> "hum", sensor_type |-> "H",
                      value |-> "60.0"] >>

Range(q) == { q[k] : k \in 1..Len(q) }

\* commands that left the queue and were never published
Discarded == enqueued \ (Range(queue) \cup {item} \cup Range(published))

\* C9: while the service is running, no command taken from the queue is
\* discarded without having been published.
C9_NoCommandDiscarded == running => Discarded = {}

\* C10 as stated: the queue a command is appended to is bounded.
C10_BoundedQueue == enqueued # {} => maxsize > 0

\* C10: in every connection state publish_mqtt_message can complete at
\* once, and when it does it appends the command to the queue, publishes
\* nothing and leaves the connection state as it is.
C10_EnqueueNeverWaits ==
    [][ /\ svc = "up"
          => \A c \in Commands \ enqueued : ENABLED PublishMqttMessage(c)
        /\ enqueued' # enqueued
          => /\ \E c \in Commands \ enqueued :
                  /\ enqueued' = enqueued \cup {c}
                  /\ queue' = Append(queue, c)
             /\ UNCHANGED << running, connected, client, cpc, ppc, item,
                             published >>
      ]_vars

\* a command was enqueued while the connection loop waited to reconnect and
\* another while the broker connection was up
C10_Witness ==
    /\ Len(queue) = 2
    /\ published = <<>>
    /\ connected
    /\ cpc = "stream"
    /\ ppc = "get"

ConnectedPcs == {"subscribe", "stream"}

\* C11: while running, a connection attempt or connection that ends in an
\* error leaves the service disconnected and sleeping; the sleep is
\* followed by a new connect; and from every such sleep the loop connects
\* and subscribes again and the frames the broker still sends are
\* delivered and handled, unless the service is stopped.
C11_Reconnects ==
    /\ [][ running' /\ cpc \in {"connect"} \cup ConnectedPcs
             /\ cpc' \notin {"connect"} \cup ConnectedPcs
           => cpc' = "sleep" /\ ~connected' /\ ~client' ]_vars
    /\ [][ running' /\ cpc = "sleep" /\ cpc' # "sleep"
           => cpc' = "connect" ]_vars
    /\ (running /\ cpc = "sleep")
         ~> (~running \/ (cpc = "stream" /\ connected /\ client))
    /\ (running /\ cpc = "sleep")
         ~> (~running \/ \A h \in HandlerIds : handlers[h].hpc = "done")

\* the connection was lost mid-stream, after a frame had been handled, and
\* the loop waits to reconnect
C11_Witness ==
    /\ running
    /\ cpc = "sleep"
    /\ ~connected /\ ~client
    /\ delivered = 1
    /\ handlers[1].hpc = "done"
    /\ handlers[1].frame = 6

\* C12: once stop() has returned, no frame handler that began its sink
\* writes before the stop is still waiting for them (so no sink write of
\* such a handler can follow the return of stop()).
C12_StopAwaitsHandlers ==
    svc = "stopped" => \A h \in HandlerIds : handlers[h].hpc # "saving"

\* C13: no step of a frame handler, failing or not, touches the connection
\* loop; while the loop is subscribed and running, a frame can be delivered
\* whatever happened to the handlers of earlier frames; and a delivered
\* frame is handed to a new handler task.
C13_LoopSurvivesHandlerFailure ==
    [][ /\ \A h \in HandlerIds :
             handlers[h].hpc # "none" /\ handlers'[h] # handlers[h]
               => UNCHANGED << svc, running, connected, client, cpc, tasks,
                               cancelled, delivered >>
        /\ /\ \E h \in HandlerIds : HandlerFailed(h)
           /\ running /\ cpc = "stream" /\ delivered < MaxFrames
           => /\ connected /\ client
              /\ \A f \in ReconnectFrames : ENABLED Deliver(f)
        /\ delivered' # delivered
           => /\ delivered' = delivered + 1
              /\ handlers'[delivered'].hpc = "new"
              /\ handlers'[delivered'].frame \in ReconnectFrames
      ]_vars

\* the handler of the first frame had both sinks raise; the loop is still
\* subscribed and a second frame has been handed to a new handler
C13_Witness ==
    /\ handlers[1].frame = 6
    /\ handlers[1].hpc = "done"
    /\ handlers[1].influx = "raised"
    /\ handlers[1].redis = "raised"
    /\ handlers[2].hpc = "new"
    /\ running /\ connected /\ client
    /\ cpc = "stream"

\* the frame of handler h is not JSON, or has no or an empty "sensors"
DroppedFrame(h) ==
    /\ handlers[h].frame # 0
    /\ LET frame == FrameCatalog[handlers[h].frame]
       IN  ~frame.json \/ frame.form = "absent"
           \/ (frame.items = <<>> /\ frame.list = <<>>)

\* C14: the handler of a frame that is not JSON, or whose JSON has no or an
\* empty "sensors", ends at its first step without starting either sink
\* write, and that step changes neither the cache nor the time series.
C14_MalformedDropped ==
    [][ \A h \in HandlerIds :
          DroppedFrame(h)
            => /\ handlers'[h].influx = "idle"
               /\ handlers'[h].redis = "idle"
               /\ handlers'[h].hpc \in {"new", "done"}
               /\ handlers'[h] # handlers[h]
                    => /\ handlers'[h].hpc = "done"
                       /\ UNCHANGED << cache, tsdb, running, connected, cpc >>
      ]_vars

\* a frame that is not JSON and a frame with an empty "sensors" were both
\* dropped and the sinks hold nothing
C14_Witness ==
    /\ handlers[1].frame = 1
    /\ handlers[1].hpc = "done"
    /\ handlers[2].frame = 7
    /\ handlers[2].hpc = "done"
    /\ handlers[2].influx = "idle" /\ handlers[2].redis = "idle"
    /\ \A k \in SensorKeys : cache[k] = Absent
    /\ tsdb = <<>>

MissingSensor(r) ==
    /\ db[r].trigger_type = "sensor_threshold"
    /\ db[r].sensor_id = None
    /\ db[r].is_active

\* C15: an active threshold rule without sensor_id gets no context (the
\* return precedes the cache read), its task never returns True, none of
\* its actions runs, no last_triggered_at update is issued or stored for it,
\* and the triggered count of a cycle counts only the other rules.
C15_SkipMissingSensor ==
    [][ \A r \in RuleIds :
          MissingSensor(r)
            => /\ PrepareContext(db[r]) = None
               /\ result'[r] \in {"none", "False"}
               /\ pc'[r] \in {"idle", "ready", "done"}
               /\ log'[r] = <<>>
               /\ fired'[r] = <<>>
               /\ session'[r] = NoTs
               /\ db'[r] = db[r]
               /\ triggered_count' # triggered_count
                    => triggered_count' =
                         Cardinality({q \in RuleIds \ {r} : result[q] = "True"})
      ]_vars

\* a cycle has ended in which a threshold rule without sensor_id was
\* skipped and the other rule was the only one counted
C15_Witness ==
    /\ dpc = "sleep"
    /\ ~store_error
    /\ triggered_count = 1
    /\ \E r, q \in RuleIds :
          /\ MissingSensor(r)
          /\ result[r] = "False"
          /\ result[q] = "True"

\* C16: when the cache holds "42.0" for sensor temp, the evaluation of an
\* active threshold rule on sensor temp with expression value > 40 that is
\* not on cooldown matches: its LOG_EVENT action is executed by the
\* log-event handler and the update of last_triggered_at to the current
\* time is issued.
C16_EndToEnd ==
    [][ \A r \in RuleIds :
          ( /\ pc[r] = "ready" /\ pc'[r] # "ready"
            /\ cache["temp"] = "42.0"
            /\ loaded[r].trigger_type = "sensor_threshold"
            /\ loaded[r].sensor_id = "temp"
            /\ loaded[r].rule_expression = "value > 40"
            /\ ~IsRuleOnCooldown(loaded[r].last_triggered_at,
                                 loaded[r].cooldown_seconds, clock) )
          => /\ Len(log'[r]) = 1
             /\ log'[r][1].outcome = "ok"
             /\ stmt'[r] = NowUtc(clock)
      ]_vars

MaxItems == 2

NormalizeValues == {JInt(42), JFloat(175), JStr("abc"), JNull}

NormalizeItems ==
    { Scalar(k, v) : k \in SensorKeys, v \in NormalizeValues }
    \cup { Object(k, hv, v, ht, "T", "{'unit': 'C'}") :
             k \in SensorKeys, hv \in BOOLEAN, v \in {JInt(42), JNull},
             ht \in BOOLEAN }

NormalizeReadings ==
    { Reading(hi, "temp", ht, "T", hv, v) :
        hi \in BOOLEAN, ht \in BOOLEAN, hv \in BOOLEAN,
        v \in {JInt(42), JStr("abc"), JNull} }

SeqsUpTo(S, n) == UNION { [1..m -> S] : m \in 0..n }

\* dicts and lists of up to MaxItems entries, and a value that is neither
NormalizeInputs ==
    { Frame(TRUE, "dict", items, <<>>) : items \in SeqsUpTo(NormalizeItems, MaxItems) }
    \cup { Frame(TRUE, "list", <<>>, lst) : lst \in SeqsUpTo(NormalizeReadings, MaxItems) }
    \cup { Frame(TRUE, "scalar", <<>>, <<>>) }

Idempotent(x) ==
    /\ NormalizeSensorData(AsList(NormalizeSensorData(x))) = NormalizeSensorData(x)
    /\ x.form = "list" => NormalizeSensorData(x) = x.list

\* C17: normalizing the result of a normalization returns it unchanged, and
\* a list is returned as it is: for the sensors of every frame a handler
\* normalizes and, evaluated once in an initial state, for every input of
\* NormalizeInputs.
C17_NormalizeIdempotent ==
    /\ \A h \in HandlerIds : Idempotent(FrameCatalog[handlers[h].frame])
    /\ (\A h \in HandlerIds : handlers[h] = [frame |-> 1, hpc |-> "new",
                                              influx |-> "idle",
                                              redis |-> "idle"])
         => \A x \in NormalizeInputs : Idempotent(x)

\* a handler normalized a dict and another a flat list, and both went on to
\* the sinks with the normalized batch
C17_Witness ==
    /\ handlers[1].frame = 3
    /\ handlers[1].hpc = "saving"
    /\ Len(Batch(1)) = 2
    /\ handlers[2].frame = 6
    /\ handlers[2].hpc = "saving"
    /\ Batch(2) = FrameCatalog[6].list

\* a reading with a sensor_id, a sensor_type and a non-null value
Complete(rd) ==
    /\ rd.has_id /\ rd.sensor_id # ""
    /\ rd.has_type /\ rd.sensor_type # ""
    /\ rd.has_value /\ rd.value.t # "null"

\* a complete reading whose value float() converts
Convertible(rd) == Complete(rd) /\ rd.value.t \in {"int", "float"}

\* a complete reading whose value float() rejects with TypeError
Rejected(rd) == Complete(rd) /\ rd.value.t = "dict"

CountOf(batch, P(_)) == Cardinality({k \in 1..Len(batch) : P(batch[k])})

ExpectedPoints(batch) ==
    LET c == SelectSeq(batch, Convertible)
    IN  [k \in 1..Len(c) |-> [sensor_id |-> c[k].sensor_id,
                              sensor_type |-> c[k].sensor_type,
                              value |-> Float(c[k].value)]]

ExpectedPrefix(batch) ==
    IF CountOf(batch, Rejected) > 0 THEN "raised"
    ELSE IF CountOf(batch, Convertible) = 0 THEN "skipped"
    ELSE "writing"

InfluxWrote(h) == handlers[h].influx # "ok" /\ handlers'[h].influx = "ok"

\* C18 as stated: the write of a batch holds one point per reading that has
\* a sensor_id, a sensor_type and a non-null value.
C18_OnePointPerCompleteReading ==
    [][ \A h \in HandlerIds :
          InfluxWrote(h) => Len(tsdb') - Len(tsdb) = CountOf(Batch(h), Complete)
      ]_vars

\* C18: save_sensor_data issues a write exactly when some reading is
\* complete and convertible and no complete reading has a value float()
\* rejects with TypeError; the write holds one point per complete,
\* convertible reading, in order; a handler writes at most once; nothing
\* else changes the time series.  Evaluated once in an initial state, the
\* same holds for the batch of every input of NormalizeInputs, the empty
\* batch included.
C18_OnePointPerConvertibleReading ==
    [][ /\ \A h \in HandlerIds :
             /\ handlers[h].hpc = "new" /\ handlers'[h].hpc = "saving"
                  => /\ handlers'[h].influx = ExpectedPrefix(Batch(h))
                     /\ tsdb' = tsdb
             /\ InfluxWrote(h)
                  => /\ handlers[h].influx = "writing"
                     /\ tsdb' = tsdb \o ExpectedPoints(Batch(h))
                     /\ ExpectedPoints(Batch(h)) # <<>>
             /\ handlers[h].influx \in {"ok", "raised", "skipped"}
                  => handlers'[h].influx = handlers[h].influx
        /\ tsdb' # tsdb => \E h \in HandlerIds : InfluxWrote(h)
        /\ (\A h \in HandlerIds : handlers[h] = [frame |-> 1, hpc |-> "new",
                                                 influx |-> "idle",
                                                 redis |-> "idle"])
             => \A x \in NormalizeInputs :
                  LET batch == NormalizeSensorData(x)
                  IN  /\ InfluxPrefix(batch) = ExpectedPrefix(batch)
                      /\ InfluxPrefix(batch) = "writing"
                           => Points(batch, 1).points = ExpectedPoints(batch)
      ]_vars

\* a batch with a numeric and a non-numeric value was written as one point,
\* and a batch whose second reading has no value as one point
C18_Witness ==
    /\ handlers[1].frame = 3
    /\ handlers[1].influx = "ok"
    /\ handlers[2].frame = 6
    /\ handlers[2].influx = "ok"
    /\ tsdb = << [sensor_id |-> "temp", sensor_type |-> "temp", value |-> "42.0"],
                 [sensor_id |-> "hum", sensor_type |-> "H", value |-> "60.0"] >>

(***************************************************************************)
(* C19: each last_triggered_at update is an independent single-row write   *)
(* scoped to one rule: the commit of one rule's update commits nothing of  *)
(* another rule (the other rules' rows stay as they were), and the         *)
(* rollback of one rule's update discards no other rule's pending update.  *)
(***************************************************************************)
C19_IndependentUpdates ==
    [][\A r \in RuleIds :
          /\ CommitOk(r) =>
                \A q \in RuleIds \ {r} : db'[q] = db[q]
          /\ RollbackOk(r) =>
                \A q \in RuleIds \ {r} : session'[q] = session[q]]_vars

(***************************************************************************)
(* C20: the scheduler never stops because of an error in a tick.  A tick   *)
(* always ends; a tick that raised at the top level of the daemon loop is  *)
(* followed by the 10 s recovery sleep, not the normal interval, and the   *)
(* next tick starts when that sleep is over; after any tick, successful or *)
(* failed, another tick eventually starts (as long as the explored cycles  *)
(* and the clock of the model allow one more).                             *)
(***************************************************************************)
MayTickAgain == cycle_count < MaxCycles /\ wake <= MaxTime

C20_SchedulerNeverStops ==
    /\ [](dpc \in {"start", "gather", "sleep", "recover"})
    /\ [](dpc = "recover" => wake = clock + RecoverySleep /\ wake # clock + Interval)
    /\ [](dpc = "sleep" => wake = clock + Interval)
    /\ (dpc = "gather") ~> (dpc \in {"sleep", "recover"})
    /\ (dpc = "recover" /\ MayTickAgain) ~> (dpc = "gather" /\ tick_at = wake)
    /\ (dpc = "sleep" /\ MayTickAgain) ~> (dpc = "gather" /\ tick_at = wake)

\* a tick started right after the recovery sleep that followed a failed tick
C20_Witness ==
    /\ dpc = "gather"
    /\ cycle_count = 2
    /\ store_error = FALSE
    /\ tick_at = RecoverySleep
    /\ clock = tick_at
    /\ wake = tick_at

(***************************************************************************)
(* C21: when the task of a threshold rule with sensor_id set, not on       *)
(* cooldown, builds its context, the cached string of that sensor decides: *)
(* with no value cached the context is null and nothing is raised; with a  *)
(* cached string that parses as a number (here "42.0") the context carries *)
(* that number as value.                                                   *)
(***************************************************************************)
C21_ContextFromCache ==
    [][ \A r \in RuleIds :
          ( /\ pc[r] = "ready" /\ pc'[r] # "ready"
            /\ loaded[r].trigger_type = "sensor_threshold"
            /\ loaded[r].sensor_id \in SensorKeys
            /\ ~IsRuleOnCooldown(loaded[r].last_triggered_at,
                                 loaded[r].cooldown_seconds, clock) )
          => /\ cache[loaded[r].sensor_id] = Absent
                  => /\ PrepareContext(loaded[r]) = None
                     /\ Decision(loaded[r], clock) = "no_context"
             /\ cache[loaded[r].sensor_id] = "42.0"
                  => /\ PrepareContext(loaded[r]) = "value"
                     /\ Decision(loaded[r], clock) = "match"
      ]_vars

(***************************************************************************)
(* C22: every action that was dispatched and whose action_type, as stored  *)
(* in the rule store, is CONTROL_DEVICE, SEND_NOTIFICATION or LOG_EVENT    *)
(* was routed to the handler registered for that kind: the lookup finds    *)
(* that handler and the action is not reported as unknown.                 *)
(***************************************************************************)
StoredKinds == {"CONTROL_DEVICE", "SEND_NOTIFICATION", "LOG_EVENT"}

C22_KnownKindDispatched ==
    \A r \in RuleIds :
        \A i \in 1..Len(log[r]) :
            \A k \in 1..Len(loaded[r].actions) :
                LET action == loaded[r].actions[k] IN
                ( /\ action.action_id = log[r][i].action_id
                  /\ action.action_type.name \in StoredKinds )
                => /\ Handlers(ActionTypeStr(action.action_type))
                        = Handlers(action.action_type.name)
                   /\ log[r][i].outcome # "unknown"

(***************************************************************************)
(* C23: an active rule whose expression has a syntax error is skipped for  *)
(* the tick only.  Its task never returns True, none of its actions runs,  *)
(* no update of its last_triggered_at is issued or stored, the cycle ends  *)
(* as soon as every task has finished and counts only the other rules,     *)
(* and every later cycle that evaluates rules creates a task for it again, *)
(* which evaluates the expression again.                                   *)
(***************************************************************************)
SyntaxRule(r) ==
    /\ db[r].rule_expression = "syntax"
    /\ db[r].trigger_type = "time_based"
    /\ db[r].is_active

C23_SyntaxErrorSkipsRule ==
    [][ \A r \in RuleIds :
          SyntaxRule(r)
            => /\ result'[r] \in {"none", "False"}
               /\ pc'[r] \in {"idle", "ready", "done"}
               /\ log'[r] = <<>>
               /\ fired'[r] = <<>>
               /\ stmt'[r] = NoTs
               /\ session'[r] = NoTs
               /\ db'[r] = db[r]
               /\ (pc[r] = "ready" /\ pc'[r] = "done")
                    => Decision(loaded[r], clock) = "syntax"
               /\ (dpc = "gather" /\ GatherFinished) => ENABLED TickEnd
               /\ triggered_count' # triggered_count
                    => triggered_count' =
                         Cardinality({q \in RuleIds \ {r} : result[q] = "True"})
               /\ (dpc = "start" /\ dpc' = "gather" /\ redis_connected
                     /\ ~store_error')
                    => pc'[r] = "ready"
      ]_vars

\* the second cycle evaluated the malformed rule again, after a first cycle
\* in which it was skipped, while the other rule triggered
C23_Witness ==
    /\ cycle_count = 2
    /\ dpc = "gather"
    /\ \E r, q \in RuleIds :
          /\ SyntaxRule(r)
          /\ pc[r] = "done"
          /\ result[r] = "False"
          /\ result[q] = "True"

(***************************************************************************)
(* C24: the evaluation of a rule that is on cooldown ends at the cooldown  *)
(* test, before the context is built (so before the cache read that        *)
(* context building starts with) and before the expression is evaluated:   *)
(* the task returns False in that one step, no action is started, no       *)
(* update is issued, and the cache, the time series, the rule store, the   *)
(* session and the command queue are as they were.                         *)
(***************************************************************************)
OnCooldown(r) ==
    IsRuleOnCooldown(loaded[r].last_triggered_at, loaded[r].cooldown_seconds,
                     clock)

C24_CooldownNoSideEffects ==
    [][ \A r \in RuleIds :
          ( pc[r] = "ready" /\ pc'[r] # "ready" /\ OnCooldown(r) )
          => /\ Decision(loaded[r], clock) = "cooldown"
             /\ pc'[r] = "done"
             /\ result'[r] = "False"
             /\ log'[r] = <<>>
             /\ stmt'[r] = NoTs
             /\ fired' = fired
             /\ db' = db
             /\ session' = session
             /\ cache' = cache
             /\ tsdb' = tsdb
             /\ queue' = queue
             /\ enqueued' = enqueued
             /\ published' = published
      ]_vars

\* a threshold rule whose sensor has a cached reading above its threshold
\* was skipped on cooldown
C24_Witness ==
    \E r \in RuleIds :
        /\ pc[r] = "done"
        /\ result[r] = "False"
        /\ log[r] = <<>>
        /\ loaded[r].trigger_type = "sensor_threshold"
        /\ loaded[r].sensor_id = "temp"
        /\ cache["temp"] = "42.0"
        /\ IsRuleOnCooldown(loaded[r].last_triggered_at,
                            loaded[r].cooldown_seconds, tick_at)
        /\ clock = tick_at

(***************************************************************************)
(* C25: the normalization of the sensors of a frame.  A map whose entries  *)
(* are scalars or objects with a value field yields one reading per key,   *)
(* in the map's order, with sensor_id = key, value = the scalar or the     *)
(* value field, and sensor_type = the entry's sensor_type, or the key when *)
(* absent; a flat list yields that list; any other input, a map with an    *)
(* entry that is an object without value field included, yields the empty  *)
(* list.                                                                   *)
(***************************************************************************)
AcceptedMap(frame) ==
    /\ frame.form = "dict"
    /\ \A k \in 1..Len(frame.items) :
          frame.items[k].is_obj => frame.items[k].has_value

NormalizedAsClaimed(frame) ==
    LET out == NormalizeSensorData(frame) IN
    CASE AcceptedMap(frame) ->
           /\ Len(out) = Len(frame.items)
           /\ \A k \in 1..Len(frame.items) :
                 LET it == frame.items[k] IN
                 /\ out[k].has_id /\ out[k].sensor_id = it.key
                 /\ out[k].has_value
                 /\ out[k].value = IF it.is_obj THEN it.value ELSE it.scalar
                 /\ out[k].has_type
                 /\ out[k].sensor_type =
                        IF it.is_obj /\ it.has_type THEN it.sensor_type
                        ELSE it.key
      [] frame.form = "list" -> out = frame.list
      [] OTHER -> out = <<>>

C25_NormalizeShapes ==
    \A h \in HandlerIds :
        handlers[h].hpc \in {"saving", "done"}
            => NormalizedAsClaimed(FrameCatalog[handlers[h].frame])

(***************************************************************************)
(* C26: the cache holds the latest reading per sensor.  Once every handler *)
(* has ended, for each sensor the cache entry holds the value carried by   *)
(* the last delivered frame among those whose cache update for that sensor *)
(* was performed (handlers are numbered in the order of delivery).         *)
(***************************************************************************)
NoCache == [k \in SensorKeys |-> Absent]

\* handler h performed its cache update and the batch carried a value for key
Cached(h, key) ==
    /\ handlers[h].hpc = "done"
    /\ handlers[h].redis = "ok"
    /\ ApplySets(NoCache, Batch(h), 1)[key] # Absent

C26_LatestReadingWins ==
    (\A h \in HandlerIds : handlers[h].hpc = "done")
    => \A key \in SensorKeys :
          \A h \in HandlerIds :
              ( /\ Cached(h, key)
                /\ \A g \in HandlerIds : g > h => ~Cached(g, key) )
              => cache[key] = ApplySets(NoCache, Batch(h), 1)[key]

(***************************************************************************)
(* C27: every enqueued command is published at most once, and only while   *)
(* the service is running, marked connected and holding a client.  A       *)
(* command is in at most one place (the queue, the publish worker's hands,  *)
(* the published commands), the queue only ever loses its head or gains a  *)
(* command that was never enqueued before, and a publish happens only in a *)
(* state where running, connected and client all hold.                     *)
(***************************************************************************)
NoDuplicates(q) == Cardinality(Range(q)) = Len(q)

C27_PublishedAtMostOnce ==
    [][ /\ NoDuplicates(published') /\ NoDuplicates(queue')
        /\ Range(queue') \cap Range(published') = {}
        /\ item' \notin Range(queue') \cup Range(published')
        /\ published' # published
             => /\ published' = Append(published, item)
                /\ item \in enqueued
                /\ running /\ connected /\ client
                /\ svc = "up"
        /\ queue' # queue
             => \/ queue # <<>> /\ queue' = Tail(queue)
                \/ \E c \in Commands \ enqueued :
                      /\ queue' = Append(queue, c)
                      /\ enqueued' = enqueued \cup {c}
      ]_vars

\* the connection dropped and came back while a command was waiting, a first
\* command was lost to a failed publish, and the second was published once
C27_Witness ==
    /\ Len(published) = 1
    /\ Cardinality(enqueued) = 2
    /\ Discarded # {}
    /\ queue = <<>>
    /\ item = NoItem
    /\ connected

(***************************************************************************)
(* C28: a tick that starts while the cache connection is down evaluates no *)
(* rule at all, time_based rules included: the rule store is not queried   *)
(* and no evaluation task is created (so no action is dispatched and no    *)
(* last_triggered_at is changed in that tick), and the tick can end at     *)
(* once into the normal interval sleep.                                    *)
(***************************************************************************)
C28_CacheDownSkipsTick ==
    [][ ( dpc = "start" /\ dpc' = "gather" /\ ~cache_up )
        => /\ \A r \in RuleIds : pc'[r] = "idle"
           /\ loaded' = loaded
           /\ ~store_error'
      ]_vars

(***************************************************************************)
(* C29: the cache update of a batch is all-or-nothing.  The cache only     *)
(* ever changes by the SET commands of one whole batch, every reading of   *)
(* which has a sensor_id and a value; the cache update of a batch with a   *)
(* reading that lacks either raises before anything is sent and changes no *)
(* key, while the time-series write of the same batch still appends the    *)
(* points of its valid readings.                                           *)
(***************************************************************************)
C29_CacheUpdateAllOrNothing ==
    [][ /\ cache' # cache
          => \E h \in HandlerIds :
                /\ handlers[h].redis = "executing"
                /\ handlers'[h].redis = "ok"
                /\ ~PipelineRaises(Batch(h))
                /\ cache' = ApplySets(cache, Batch(h), 1)
        /\ \A h \in HandlerIds :
              ( handlers[h].hpc = "saving" /\ PipelineRaises(Batch(h)) )
              => /\ handlers[h].redis = "raised"
                 /\ handlers'[h].redis = "raised"
                 /\ handlers[h].influx = "writing"
                      => ENABLED InfluxWriteOk(h)
                 /\ (handlers[h].influx = "writing" /\ handlers'[h].influx = "ok")
                      => /\ tsdb' = tsdb \o Points(Batch(h), 1).points
                         /\ cache' = cache
      ]_vars

\* the batch of hum = 60 and a temp reading without value left the cache
\* untouched, and its hum point was appended to the time series
C29_Witness ==
    /\ handlers[1].frame = 1
    /\ handlers[2].frame = 6
    /\ handlers[2].hpc = "done"
    /\ handlers[2].redis = "raised"
    /\ handlers[2].influx = "ok"
    /\ cache = NoCache
    /\ Len(tsdb) = 1
    /\ tsdb[1].sensor_id = "hum"

(***************************************************************************)
(* C30: over any sequence and interleaving of start() and stop() calls, at *)
(* most one connection loop and at most one publish worker are alive,      *)
(* every alive loop is in _tasks (so that stop() cancels it), a start()    *)
(* on a running service creates nothing, and when a stop() call returns no *)
(* loop is alive and is_connected() is false.                              *)
(***************************************************************************)
\* the loops of a kind that go on running: alive and not being cancelled
AliveOf(kind) ==
    {g \in Gens : Alive(<<kind, g>>) /\ ~loops[<<kind, g>>].cancel}

C30_LifecycleInvariant ==
    [][ /\ Cardinality(AliveOf("conn")) <= 1
        /\ Cardinality(AliveOf("pub")) <= 1
        /\ \A kind \in {"conn", "pub"} :
              \A g \in AliveOf(kind) : <<kind, g>> \in tracked
        /\ (running /\ StartCall)
             => /\ loops' = loops
                /\ tracked' = tracked
                /\ gen' = gen
        /\ \A s \in StopIds :
              (stops[s].st # "returned" /\ stops'[s].st = "returned")
              => /\ \A id \in LoopIds : loops'[id].pc \in {"none", "ended"}
                 /\ ~connected'
      ]_vars
====
